---- MODULE Spec2Model ----
(***************************************************************************)
(* Component index algebra of pymel.core.nodetypes: ComponentIndex,        *)
(* discrete and continuous dimensioned components, slice expansion,        *)
(* index flattening, chained indexing and the maya slice codec.            *)
(*                                                                         *)
(* Conventions of the model                                                *)
(*   - Python None is the empty tuple << >>, a present value v is <<v>>.   *)
(*   - An index entry is a tagged record: a number, a slice or a list.     *)
(*   - A call that may raise returns Ok(value) or Raise(exception, text).  *)
(*   - Parametric (float) values of continuous components are drawn from   *)
(*     an integer grid; only their order matters to the code modelled.     *)
(***************************************************************************)
EXTENDS Integers, Sequences, FiniteSets, TLC

VARIABLES
    cls,        \* class of the component the session works with
    host,       \* geometry held by the maya scene (the external collaborator)
    comp,       \* the component object the session currently holds
    call,       \* the last call made: operation and arguments
    ret,        \* what that call returned or raised
    nIndexed    \* number of __getitem__ calls that returned so far

vars == <<cls, host, comp, call, ret, nIndexed>>

----------------------------------------------------------------------------
(* Bounds of the model *)

MaxLen == 2          \* largest host-reported dimension length
MaxSeq == 6          \* largest integer of an index set handed to the codec
MaxEntries == 2      \* longest entry tuple of a ComponentIndex operand
MaxDim == 10         \* most vertices of a mesh whose slices are expanded
MaxStep == 3         \* largest step of a slice expanded
MaxCVs == 5          \* most control vertices of a surface along one parameter
MaxElements == 2     \* most elements of a component whose handle is made
MaxNext == 4         \* most calls of next() counted since a reset

----------------------------------------------------------------------------
(* Python values *)

None == << >>
Some(v) == <<v>>
Val(o) == o[1]

Ok(v) == [exc |-> "none", value |-> v]
Raise(e, m) == [exc |-> e, msg |-> m]
IsOk(r) == r.exc = "none"

(* the rest of a computation runs on the value returned, a raise ends it *)
Bind(r, rest(_)) == IF IsOk(r) THEN rest(r.value) ELSE r

Num(v) == [kind |-> "num", v |-> v]
List(items) == [kind |-> "list", items |-> items]

Min(a, b) == IF a <= b THEN a ELSE b
Max(a, b) == IF a >= b THEN a ELSE b

RECURSIVE Concat(_)
Concat(seqs) ==
    IF seqs = << >> THEN << >> ELSE Head(seqs) \o Concat(Tail(seqs))

----------------------------------------------------------------------------
(* HashableSlice: start, stop and step are each None or a number *)

HashableSlice(start, stop, step) ==
    [kind |-> "slice", start |-> start, stop |-> stop, step |-> step]

WildcardSlice == HashableSlice(None, None, None)

(* mutant: a slice without stop ends one before the end of the sequence *)
sliceIndices_shortOfEnd(start, stop, step, length) ==
    IF step = 0 THEN Raise("ValueError", "slice step cannot be zero")
    ELSE LET lower == IF step < 0 THEN -1 ELSE 0
             upper == length - 1
             clamp(v) == IF v < 0
                         THEN Max(v + length, lower)
                         ELSE Min(v, upper)
             s == clamp(start)
             e == IF stop = None
                  THEN (IF step < 0 THEN lower ELSE upper)
                  ELSE clamp(Val(stop))
         IN  Ok(<<s, e, step>>)

(* slice.indices(length) of the Python 2 interpreter, for a slice whose    *)
(* start and step are numbers; stop is None or a number.                   *)
sliceIndices(start, stop, step, length) ==
    IF step = 0 THEN Raise("ValueError", "slice step cannot be zero")
    ELSE LET lower == IF step < 0 THEN -1 ELSE 0
             upper == IF step < 0 THEN length - 1 ELSE length
             clamp(v) == IF v < 0
                         THEN Max(v + length, lower)
                         ELSE Min(v, upper)
             s == clamp(start)
             e == IF stop = None
                  THEN (IF step < 0 THEN lower ELSE upper)
                  ELSE clamp(Val(stop))
         IN  Ok(<<s, e, step>>)

(* xrange(start, stop, step) as the sequence of its values *)
RECURSIVE xrangeFrom(_, _, _)
xrangeFrom(cur, stop, step) ==
    IF (step > 0 /\ cur >= stop) \/ (step < 0 /\ cur <= stop)
    THEN << >>
    ELSE <<cur>> \o xrangeFrom(cur + step, stop, step)

xrange(start, stop, step) ==
    IF step = 0 THEN Raise("ValueError", "xrange() arg 3 must not be zero")
    ELSE Ok(xrangeFrom(start, stop, step))

----------------------------------------------------------------------------
(* ComponentIndex: a tuple subclass carrying a label attribute *)

ComponentIndex(entries, label) == [entries |-> entries, label |-> label]

EmptyIndex == ComponentIndex(<< >>, None)

(* mutant: the label of the left operand is always the one kept *)
__add___selfLabel(self, other) ==
    Ok(ComponentIndex(self.entries \o other.entries, self.label))

(* ComponentIndex.__add__(self, other); a plain tuple operand is passed as *)
(* a ComponentIndex without label, for which the code takes the same path. *)
__add__(self, other) ==
    IF other.label # None
    THEN IF self.label = None
         THEN Ok(ComponentIndex(self.entries \o other.entries, other.label))
         ELSE IF other.label # self.label
              THEN Raise("ValueError",
                     "cannot add two ComponentIndex objects with different labels")
              ELSE Ok(ComponentIndex(self.entries \o other.entries, self.label))
    ELSE Ok(ComponentIndex(self.entries \o other.entries, self.label))

(* partialIndex + (entry,) : the right operand is a plain tuple *)
Append1(index, entry) == ComponentIndex(Append(index.entries, entry), index.label)

(* ComponentIndex defines neither __eq__ nor __hash__: both are tuple's,   *)
(* which look at the entries only.                                         *)
ComponentIndex__eq__(a, b) == a.entries = b.entries

ComponentIndex__hash__(a) == a.entries

(* indices.update(items) on the set _standardizeIndices collects into: an  *)
(* item is added unless the set holds one of the same hash that equals it; *)
(* the set is written as the sequence of the members it keeps              *)
RECURSIVE setUpdate(_, _)
setUpdate(indices, items) ==
    IF items = << >> THEN indices
    ELSE IF \E k \in 1..Len(indices) :
               /\ ComponentIndex__hash__(indices[k]) = ComponentIndex__hash__(Head(items))
               /\ ComponentIndex__eq__(indices[k], Head(items))
         THEN setUpdate(indices, Tail(items))
         ELSE setUpdate(Append(indices, Head(items)), Tail(items))

----------------------------------------------------------------------------
(* Component classes modelled, one per family of the hierarchy *)

DiscreteClasses == {"MeshVertex", "NurbsSurfaceCV", "MeshVertexFace", "SubdVertex"}
ContinuousClasses == {"NurbsCurveParameter", "NurbsSurfaceIsoparm"}
Classes == DiscreteClasses \cup ContinuousClasses

(* the class attribute 'dimensions' *)
dimensions(c) ==
    CASE c = "MeshVertex" -> 1            \* Component1D
      [] c = "NurbsSurfaceCV" -> 2        \* Component2D
      [] c = "MeshVertexFace" -> 2        \* Component2D
      [] c = "SubdVertex" -> 2            \* Component1D64
      [] c = "NurbsCurveParameter" -> 1   \* Component1DFloat
      [] c = "NurbsSurfaceIsoparm" -> 2   \* Component2DFloat

(* the label a component made from its node alone starts with:             *)
(* _ComponentLabel__, or _defaultLabel() where the class has several       *)
initialLabel(c) ==
    CASE c = "MeshVertex" -> "vtx"
      [] c = "NurbsSurfaceCV" -> "cv"
      [] c = "MeshVertexFace" -> "vtxFace"
      [] c = "SubdVertex" -> "smp"
      [] c = "NurbsCurveParameter" -> "u"
      [] c = "NurbsSurfaceIsoparm" -> "u"

(* Component1D64._max32 is 2**32 in the source; integers of the model      *)
(* checker are 32 bits wide, so the model keeps a power of two whose       *)
(* square, the count of a component open in both dimensions, they hold.    *)
max32 == 2^15

----------------------------------------------------------------------------
(* The scene: what the node of the component answers *)

(* faces around one vertex, as MItMeshVertex.getConnectedFaces lists them: *)
(* face ids, neither contiguous nor bounded by their number                *)
FaceRings == { <<3>>, <<0, 2>> }

KnotDomains == { <<0, 2, 0, 1>>, <<-1, 1, 0, 2>> }

DefaultHost ==
    [numVertices |-> 1, connectedFaces |-> << <<3>> >>,
     numCVsInU |-> 1, numCVsInV |-> 1, knotDomain |-> <<0, 2, 0, 1>>]

Hosts(c) ==
    CASE c = "MeshVertex" ->
           { [DefaultHost EXCEPT !.numVertices = n,
                                 !.connectedFaces = [v \in 1..n |-> <<3>>]] :
               n \in 1..MaxLen }
      [] c = "MeshVertexFace" ->
           UNION { { [DefaultHost EXCEPT !.numVertices = n, !.connectedFaces = f] :
                       f \in [1..n -> FaceRings] } : n \in 1..MaxLen }
      [] c = "NurbsSurfaceCV" ->
           { [DefaultHost EXCEPT !.numCVsInU = a, !.numCVsInV = b] :
               a \in 1..MaxLen, b \in 1..MaxLen }
      [] c = "SubdVertex" -> { DefaultHost }
      [] c \in ContinuousClasses ->
           { [DefaultHost EXCEPT !.knotDomain = k] : k \in KnotDomains }

(* MeshVertex.__getitem__ followed by numConnectedFaces(), as              *)
(* MeshVertexFace._dimLength uses it: node.vtx[v].numConnectedFaces()      *)
vtxNumConnectedFaces(h, entry) ==
    IF entry.kind # "num"
    THEN Raise("RuntimeError", "vertex count of a multi-vertex component")
    ELSE IF entry.v < -h.numVertices \/ entry.v > h.numVertices - 1
         THEN Raise("IndexError", "Indice out of range")
         ELSE LET v == IF entry.v < 0 THEN h.numVertices + entry.v ELSE entry.v
              IN  Ok(Len(h.connectedFaces[v + 1]))

(* MItMeshVertex.setIndex(v) followed by getConnectedFaces() *)
getConnectedFaces(h, entry) ==
    IF entry.kind # "num"
    THEN Raise("TypeError", "MItMeshVertex.setIndex: bad argument type")
    ELSE IF entry.v < 0 \/ entry.v > h.numVertices - 1
         THEN Raise("RuntimeError", "MItMeshVertex.setIndex failed")
         ELSE Ok(h.connectedFaces[entry.v + 1])

----------------------------------------------------------------------------
(* Bounds of a dimension *)

RECURSIVE _dimRange(_, _, _)

_dimLength(c, h, partialIndex) ==
    CASE c = "MeshVertex" -> Ok(h.numVertices)
      [] c = "NurbsSurfaceCV" ->
           IF Len(partialIndex.entries) = 0 THEN Ok(h.numCVsInU)
           ELSE IF Len(partialIndex.entries) = 1 THEN Ok(h.numCVsInV)
           ELSE Raise("ValueError", "partialIndex too long")
      [] c = "MeshVertexFace" ->
           IF Len(partialIndex.entries) = 0 THEN Ok(h.numVertices)
           ELSE IF Len(partialIndex.entries) = 1
           THEN vtxNumConnectedFaces(h, partialIndex.entries[1])
           ELSE Raise("TypeError", "_dimLength returned None")
      [] c = "SubdVertex" -> Ok(max32)
      [] c \in ContinuousClasses ->
           Bind(_dimRange(c, h, partialIndex),
                LAMBDA range : Ok(range[2] - range[1]))

(* the parameter of the surface the next index runs along *)
isoparmParam(partialIndex) ==
    IF Len(partialIndex.entries) = 0
    THEN (IF partialIndex.label = Some("v") THEN "v" ELSE "u")
    ELSE (IF partialIndex.label = Some("v") THEN "u" ELSE "v")

_dimRange(c, h, partialIndex) ==
    CASE c \in DiscreteClasses ->
           Bind(_dimLength(c, h, partialIndex),
                LAMBDA dimLen : Ok(<<-dimLen, dimLen - 1>>))
      [] c = "NurbsCurveParameter" ->
           Ok(<<h.knotDomain[1], h.knotDomain[2]>>)
      [] c = "NurbsSurfaceIsoparm" ->
           IF isoparmParam(partialIndex) = "u"
           THEN Ok(<<h.knotDomain[1], h.knotDomain[2]>>)
           ELSE Ok(<<h.knotDomain[3], h.knotDomain[4]>>)

(* mutant: the translated index is counted from one past the end *)
_translateNegativeIndice_pastEnd(c, h, negIndex, partialIndex) ==
    IF c \in DiscreteClasses
    THEN Bind(_dimLength(c, h, partialIndex),
              LAMBDA dimLen : Ok(dimLen + negIndex + 1))
    ELSE Ok(negIndex)

_translateNegativeIndice(c, h, negIndex, partialIndex) ==
    IF c \in DiscreteClasses
    THEN Bind(_dimLength(c, h, partialIndex),
              LAMBDA dimLen : Ok(dimLen + negIndex))
    ELSE Ok(negIndex)

----------------------------------------------------------------------------
(* Slice expansion.  partialIndex is a ComponentIndex; the code's default  *)
(* partialIndex=None stands for the empty ComponentIndex.                  *)

(* ComponentIndex(partialIndex + (rawIndex,)) for every rawIndex *)
appendEach(partialIndex, raws) ==
    [i \in 1..Len(raws) |-> Append1(partialIndex, Num(raws[i]))]

(* mutant: the stop of a maya slice is used as python's exclusive stop *)
pythonStop_exclusive(stop) == stop

(* stop after the conversion of a 'maya slice' to a 'python slice' *)
pythonStop(stop) ==
    IF stop # None /\ Val(stop) >= 0 THEN Some(Val(stop) + 1) ELSE stop

(* start, stop, step as xrange receives them; start and step are numbers, *)
(* stop is what pythonStop returned                                        *)
resolveSlice(c, h, start, stop, step, partialIndex) ==
    IF stop = None \/ start < 0 \/ Val(stop) < 0 \/ step < 0
    THEN Bind(_dimLength(c, h, partialIndex),
              LAMBDA dimLen : sliceIndices(start, stop, step, dimLen))
    ELSE Ok(<<start, Val(stop), step>>)

DiscreteComponent_sliceToIndices(c, h, sliceObj, partialIndex) ==
    Bind(resolveSlice(c, h,
                      IF sliceObj.start = None THEN 0 ELSE Val(sliceObj.start),
                      pythonStop(sliceObj.stop),
                      IF sliceObj.step = None THEN 1 ELSE Val(sliceObj.step),
                      partialIndex),
         LAMBDA sss :
            Bind(xrange(sss[1], sss[2], sss[3]),
                 LAMBDA raws : Ok(appendEach(partialIndex, raws))))

(* mutant: the step of the slice is dropped without complaint *)
ContinuousComponent_sliceToIndices_stepDropped(c, h, sliceObj, partialIndex) ==
    Ok(<< Append1(partialIndex,
                  HashableSlice(sliceObj.start, sliceObj.stop, None)) >>)

ContinuousComponent_sliceToIndices(c, h, sliceObj, partialIndex) ==
    IF sliceObj.step # None
    THEN Raise("MayaComponentError", "may not use slice-indices with a 'step'")
    ELSE IF sliceObj.start = None /\ sliceObj.stop = None
         THEN Ok(<< Append1(partialIndex, HashableSlice(None, None, None)) >>)
         ELSE Ok(<< Append1(partialIndex,
                            HashableSlice(sliceObj.start, sliceObj.stop, None)) >>)

MeshVertexFace_sliceToIndices(c, h, sliceObj, partialIndex) ==
    IF Len(partialIndex.entries) = 0
    THEN DiscreteComponent_sliceToIndices(c, h, sliceObj, partialIndex)
    ELSE IF \/ sliceObj.start \notin {Some(0), None}
            \/ sliceObj.stop # None
            \/ sliceObj.step # None
         THEN Raise("ValueError", "may not be indexed with slices, except for [:]")
         ELSE Bind(getConnectedFaces(h, partialIndex.entries[1]),
                   LAMBDA faces : Ok(appendEach(partialIndex, faces)))

(* the method the class resolves _sliceToIndices to *)
_sliceToIndices(c, h, sliceObj, partialIndex) ==
    CASE c = "MeshVertexFace" ->
           MeshVertexFace_sliceToIndices(c, h, sliceObj, partialIndex)
      [] c \in ContinuousClasses \cup {"SubdVertex"} ->
           ContinuousComponent_sliceToIndices(c, h, sliceObj, partialIndex)
      [] OTHER ->
           DiscreteComponent_sliceToIndices(c, h, sliceObj, partialIndex)

----------------------------------------------------------------------------
(* Index flattening *)

RECURSIVE padIndex(_, _)
(* mutant: the index is not padded to the dimensions of the class *)
padIndex_unpadded(c, index) == index

padIndex(c, index) ==
    IF Len(index.entries) < dimensions(c)
    THEN padIndex(c, Append1(index, WildcardSlice))
    ELSE index

(* newIndices.extend(self._sliceToIndices(dimIndex, partialIndex=oldPartial)) *)
(* for every oldPartial, stopping at the first call that raises               *)
RECURSIVE expandSlice(_, _, _, _)
(* mutant: only the first of the prefixes is expanded *)
expandSlice_firstPrefix(c, h, dimIndex, indices) ==
    IF indices = << >> THEN Ok(<< >>)
    ELSE _sliceToIndices(c, h, dimIndex, Head(indices))

(* mutant: the expansion of a prefix is put before that of the prefixes    *)
(* ahead of it                                                             *)
expandSlice_lastFirst(c, h, dimIndex, indices) ==
    IF indices = << >> THEN Ok(<< >>)
    ELSE Bind(_sliceToIndices(c, h, dimIndex, Head(indices)),
              LAMBDA first :
                 Bind(expandSlice(c, h, dimIndex, Tail(indices)),
                      LAMBDA rest : Ok(rest \o first)))

expandSlice(c, h, dimIndex, indices) ==
    IF indices = << >> THEN Ok(<< >>)
    ELSE Bind(_sliceToIndices(c, h, dimIndex, Head(indices)),
              LAMBDA first :
                 Bind(expandSlice(c, h, dimIndex, Tail(indices)),
                      LAMBDA rest : Ok(first \o rest)))

(* [x + (self._translateNegativeIndice(dimIndex, x),) for x in indices] *)
RECURSIVE translateEach(_, _, _, _)
translateEach(c, h, negIndex, indices) ==
    IF indices = << >> THEN Ok(<< >>)
    ELSE Bind(_translateNegativeIndice(c, h, negIndex, Head(indices)),
              LAMBDA t :
                 Bind(translateEach(c, h, negIndex, Tail(indices)),
                      LAMBDA rest :
                         Ok(<<Append1(Head(indices), Num(t))>> \o rest)))

(* oldPartial + (indice,) for oldPartial in indices, for indice in dimIndex *)
eachWithEach(indices, items) ==
    [i \in 1..(Len(indices) * Len(items)) |->
        Append1(indices[((i - 1) \div Len(items)) + 1],
                items[((i - 1) % Len(items)) + 1])]

RECURSIVE _flattenIndex(_, _, _, _)
RECURSIVE flattenDims(_, _, _, _, _, _)
RECURSIVE flattenIterable(_, _, _, _)

(* the loop 'for dimIndex in index', from entry d on; index is padded *)
flattenDims(c, h, index, d, indices, allowIterable) ==
    IF d > Len(index.entries) THEN Ok(indices)
    ELSE CASE index.entries[d].kind = "slice" ->
                Bind(expandSlice(c, h, index.entries[d], indices),
                     LAMBDA newIndices :
                        flattenDims(c, h, index, d + 1, newIndices, allowIterable))
           [] index.entries[d].kind = "list" ->
                IF allowIterable
                THEN flattenIterable(c, h,
                        eachWithEach(indices, index.entries[d].items), << >>)
                ELSE Raise("IndexError", "nested iterable")
           [] index.entries[d].kind = "num" /\ index.entries[d].v < 0 ->
                Bind(translateEach(c, h, index.entries[d].v, indices),
                     LAMBDA newIndices :
                        flattenDims(c, h, index, d + 1, newIndices, allowIterable))
           [] OTHER ->
                flattenDims(c, h, index, d + 1,
                            [i \in 1..Len(indices) |->
                                Append1(indices[i], index.entries[d])],
                            allowIterable)

_flattenIndex(c, h, index, allowIterable) ==
    flattenDims(c, h, padIndex(c, index), 1,
                << ComponentIndex(<< >>, index.label) >>, allowIterable)

(* newIndices.extend(self._flattenIndex(oldPartial + (indice,), False)) *)
flattenIterable(c, h, todo, newIndices) ==
    IF todo = << >> THEN Ok(newIndices)
    ELSE Bind(_flattenIndex(c, h, Head(todo), FALSE),
              LAMBDA r : flattenIterable(c, h, Tail(todo), newIndices \o r))

----------------
(* Component objects.  A component is the pair of attributes the indexing  *)
(* code reads: _indices (what the constructor was given) and _partialIndex.*)

(* NurbsSurfaceIsoparm._convertUVtoU on None or a ComponentIndex *)
_convertUVtoU(index) ==
    IF index = None THEN None
    ELSE IF Val(index).label = Some("uv")
         THEN Some(ComponentIndex(Val(index).entries, Some("u")))
         ELSE index

(* cls(node) and cls(node, ComponentIndex): Component.__init__ followed by *)
(* DimensionedComponent.__init__, no MObjectHandle given, so isComplete    *)
(* stays True.  indices is None or Some(ComponentIndex).                   *)
(* mutant: any indices given make the component complete *)
DimensionedComponent__init___alwaysComplete(c, indices) ==
    LET partialIndex ==
            IF indices # None
            THEN None
            ELSE Some(ComponentIndex(<< >>, Some(initialLabel(c))))
    IN  IF c = "NurbsSurfaceIsoparm"
        THEN [_indices |-> _convertUVtoU(indices),
              _partialIndex |-> _convertUVtoU(partialIndex)]
        ELSE [_indices |-> indices, _partialIndex |-> partialIndex]

DimensionedComponent__init__(c, indices) ==
    LET partialIndex ==
            IF indices # None
            THEN (IF Len(Val(indices).entries) < dimensions(c)
                  THEN indices
                  ELSE None)
            ELSE Some(ComponentIndex(<< >>, Some(initialLabel(c))))
    IN  IF c = "NurbsSurfaceIsoparm"
        THEN [_indices |-> _convertUVtoU(indices),
              _partialIndex |-> _convertUVtoU(partialIndex)]
        ELSE [_indices |-> indices, _partialIndex |-> partialIndex]

currentDimension(c, self) ==
    LET indices == self._partialIndex
    IN  IF indices # None /\ Len(Val(indices).entries) < dimensions(c)
        THEN Some(Len(Val(indices).entries))
        ELSE None

----------------------------------------------------------------------------
(* __getitem__ and its validation *)

(* the kinds of entry isinstance(item, VALID_SINGLE_INDEX_TYPES) admits;   *)
(* every number of the model is of a numeric type the class admits         *)
VALID_SINGLE_INDEX_TYPES == {"num", "slice"}

(* mutant: the upper bound is taken as exclusive *)
checkRange_exclusiveMax(c, h, partialIndex, minIndex, maxIndex) ==
    Bind(_dimRange(c, h, partialIndex),
         LAMBDA allowedRange :
            IF minIndex < allowedRange[1] \/ maxIndex > allowedRange[2] + 1
            THEN Raise("IndexError", "Indice out of range")
            ELSE Ok(None))

(* the range test the validation ends with *)
checkRange(c, h, partialIndex, minIndex, maxIndex) ==
    Bind(_dimRange(c, h, partialIndex),
         LAMBDA allowedRange :
            IF minIndex < allowedRange[1] \/ maxIndex > allowedRange[2]
            THEN Raise("IndexError", "Indice out of range")
            ELSE Ok(None))

(* minIndex and maxIndex of an item that is a number or a slice with at    *)
(* least one of start and stop given                                       *)
minIndex(item) ==
    IF item.kind = "num" THEN item.v
    ELSE IF item.start = None THEN Val(item.stop)
    ELSE IF item.stop = None THEN Val(item.start)
    ELSE Min(Val(item.start), Val(item.stop))

maxIndex(item) ==
    IF item.kind = "num" THEN item.v
    ELSE IF item.start = None THEN Val(item.stop)
    ELSE IF item.stop = None THEN Val(item.start)
    ELSE Max(Val(item.start), Val(item.stop))

(* for x in item: self._validateGetItemIndice(item, allowIterables=False): *)
(* the loop validates the iterable itself, once for each of its members,   *)
(* and an iterable is of no valid single index type                        *)
validateIterable(item) ==
    IF item.items = << >> THEN Ok(None)
    ELSE Raise("IndexError", "Invalid indice type")

(* mutant: the step of a slice is not looked at *)
DimensionedComponent_validateGetItemIndice_anyStep(c, h, partialIndex, item, allowIterables) ==
    IF allowIterables /\ item.kind = "list"
    THEN validateIterable(item)
    ELSE IF item.kind \notin VALID_SINGLE_INDEX_TYPES
    THEN Raise("IndexError", "Invalid indice type")
    ELSE IF item.kind = "slice" /\ item.start = None /\ item.stop = None
    THEN Ok(None)
    ELSE checkRange(c, h, partialIndex, minIndex(item), maxIndex(item))

DimensionedComponent_validateGetItemIndice(c, h, partialIndex, item, allowIterables) ==
    IF allowIterables /\ item.kind = "list"
    THEN validateIterable(item)
    ELSE IF item.kind \notin VALID_SINGLE_INDEX_TYPES
    THEN Raise("IndexError", "Invalid indice type")
    ELSE IF item.kind = "slice" /\ item.step # None
              /\ Val(item.step) # 0 /\ Val(item.step) < 0
    THEN Raise("IndexError",
               "Components do not support slices with negative steps")
    ELSE IF item.kind = "slice" /\ item.start = None /\ item.stop = None
    THEN Ok(None)
    ELSE checkRange(c, h, partialIndex, minIndex(item), maxIndex(item))

(* item == fullIndice[1] for some fullIndice of the [:] expansion *)
existsVertexFace(item, fullIndices) ==
    \E i \in 1..Len(fullIndices) : fullIndices[i].entries[2] = item

MeshVertexFace_validateGetItemIndice(c, h, partialIndex, item, allowIterables) ==
    IF Len(partialIndex.entries) = 0
    THEN DimensionedComponent_validateGetItemIndice(c, h, partialIndex, item, TRUE)
    ELSE IF allowIterables /\ item.kind = "list"
    THEN validateIterable(item)
    ELSE IF item.kind = "slice"
    THEN \* slice.start == slice.stop == slice.step == None compares the
         \* member descriptors of the builtin type, never the item: False
         Raise("IndexError", "only completely open-ended slices are allowable")
    ELSE IF item.kind \notin VALID_SINGLE_INDEX_TYPES
    THEN Raise("IndexError", "Invalid indice type")
    ELSE Bind(_sliceToIndices(c, h, WildcardSlice, partialIndex),
              LAMBDA fullIndices :
                 IF existsVertexFace(item, fullIndices)
                 THEN Ok(None)
                 ELSE Raise("IndexError", "vertex-face does not exist"))

_validateGetItemIndice(c, h, partialIndex, item) ==
    IF c = "MeshVertexFace"
    THEN MeshVertexFace_validateGetItemIndice(c, h, partialIndex, item, TRUE)
    ELSE DimensionedComponent_validateGetItemIndice(c, h, partialIndex, item, TRUE)

__getitem__(c, h, self, item) ==
    IF currentDimension(c, self) = None
    THEN Raise("IndexError",
               "Indexing only allowed on an incompletely specified component")
    ELSE Bind(_validateGetItemIndice(c, h, Val(self._partialIndex), item),
              LAMBDA valid :
                 Ok(DimensionedComponent__init__(c,
                       Some(Append1(Val(self._partialIndex), item)))))

----------------------------------------------------------------------------
(* Chained indexing: a session holding one component and indexing it *)

Scalars == (-(MaxLen + 1))..(MaxLen + 1)

SliceStarts == {None, Some(-1), Some(0), Some(MaxLen + 1)}
SliceStops == {None, Some(1), Some(-(MaxLen + 1))}
SliceSteps == {None, Some(-1), Some(0), Some(2)}

Slices == { HashableSlice(a, b, s) :
              a \in SliceStarts, b \in SliceStops, s \in SliceSteps }

Lists == { List(<< >>), List(<<Num(0)>>), List(<<Num(0), Num(1)>>) }

Items == { Num(v) : v \in Scalars } \cup Slices \cup Lists

Init ==
    /\ cls \in Classes
    /\ host \in Hosts(cls)
    /\ comp = DimensionedComponent__init__(cls, None)
    /\ call = [op |-> "__init__"]
    /\ ret = Ok(None)
    /\ nIndexed = 0

(* comp = comp[item]; a raise leaves the session with the component it had *)
(* and stays pending until the caller's except clause has handled it        *)
GetItem(item) ==
    /\ IsOk(ret)
    /\ call' = [op |-> "__getitem__", self |-> comp, item |-> item]
    /\ ret' = __getitem__(cls, host, comp, item)
    /\ comp' = IF IsOk(ret') THEN ret'.value ELSE comp
    /\ nIndexed' = IF IsOk(ret') THEN nIndexed + 1 ELSE nIndexed
    /\ UNCHANGED <<cls, host>>

(* the caller catches the exception and carries on with what it holds *)
Except ==
    /\ ~IsOk(ret)
    /\ call' = [op |-> "except"]
    /\ ret' = Ok(None)
    /\ UNCHANGED <<cls, host, comp, nIndexed>>

Next ==
    \/ \E item \in Items : GetItem(item)
    \/ Except

Spec == Init /\ [][Next]_vars

----------------------------------------------------------------------------
(* Slice expansion on its own: a caller that makes one call on a fresh     *)
(* component, expanding one slice at one prefix or asking the length of    *)
(* the dimension at that prefix; neither call changes the component        *)

(* scenes of the slice calls: those of the session, and meshes of up to    *)
(* MaxDim vertices                                                         *)
SliceHosts(c) ==
    IF c = "MeshVertex"
    THEN { [DefaultHost EXCEPT !.numVertices = n,
                               !.connectedFaces = [v \in 1..n |-> <<3>>]] :
             n \in 1..MaxDim }
    ELSE Hosts(c)

(* the prefixes _flattenIndex hands to _sliceToIndices: the leaves of the  *)
(* dimensions before the one expanded                                      *)
Prefixes(c, h) ==
    LET label == Some(initialLabel(c))
        empty == ComponentIndex(<< >>, label)
        first == CASE c = "NurbsSurfaceCV" -> 0..(h.numCVsInU - 1)
                   [] c = "MeshVertexFace" -> 0..(h.numVertices - 1)
                   [] c = "SubdVertex" -> 0..1
                   [] c = "NurbsSurfaceIsoparm" -> h.knotDomain[1]..h.knotDomain[2]
                   [] OTHER -> {}
    IN  {empty} \cup { ComponentIndex(<<Num(v)>>, label) : v \in first }

SliceEnds == {None} \cup { Some(v) : v \in (-2)..MaxDim }
SliceStrides == {None} \cup { Some(v) : v \in (-1)..MaxStep }

SliceObjs == { HashableSlice(a, b, s) :
                 a \in SliceEnds, b \in SliceEnds, s \in SliceStrides }

SliceInit ==
    /\ cls \in Classes
    /\ host \in SliceHosts(cls)
    /\ comp = DimensionedComponent__init__(cls, None)
    /\ call = [op |-> "__init__"]
    /\ ret = Ok(None)
    /\ nIndexed = 0

(* list(comp._sliceToIndices(sliceObj, partialIndex=partialIndex)) *)
SliceToIndices(sliceObj, partialIndex) ==
    /\ call.op = "__init__"
    /\ call' = [op |-> "_sliceToIndices", sliceObj |-> sliceObj,
                partialIndex |-> partialIndex]
    /\ ret' = _sliceToIndices(cls, host, sliceObj, partialIndex)
    /\ UNCHANGED <<cls, host, comp, nIndexed>>

(* comp._dimLength(partialIndex) *)
DimLength(partialIndex) ==
    /\ call.op = "__init__"
    /\ call' = [op |-> "_dimLength", partialIndex |-> partialIndex]
    /\ ret' = _dimLength(cls, host, partialIndex)
    /\ UNCHANGED <<cls, host, comp, nIndexed>>

SliceNext ==
    \/ \E sliceObj \in SliceObjs, partialIndex \in Prefixes(cls, host) :
          SliceToIndices(sliceObj, partialIndex)
    \/ \E partialIndex \in Prefixes(cls, host) : DimLength(partialIndex)

SliceSpec == SliceInit /\ [][SliceNext]_vars

----------------------------------------------------------------------------
(* ComponentIndex on its own: a caller holding two indices that adds them, *)
(* compares them or collects them into a set                               *)

IndexLabels == {None, Some("u"), Some("v"), Some("uv")}

RECURSIVE EntryTuples(_)
EntryTuples(n) ==
    IF n = 0 THEN { << >> }
    ELSE EntryTuples(n - 1) \cup
         { Append(t, e) : t \in { u \in EntryTuples(n - 1) : Len(u) = n - 1 },
                          e \in { Num(3), Num(4) } }

Indexes == { ComponentIndex(t, l) : t \in EntryTuples(MaxEntries), l \in IndexLabels }

IndexInit ==
    /\ cls = "NurbsSurfaceIsoparm"
    /\ host = DefaultHost
    /\ comp \in Indexes \X Indexes
    /\ call = [op |-> "__init__"]
    /\ ret = Ok(None)
    /\ nIndexed = 0

(* comp[0] + comp[1] *)
Add ==
    /\ call.op = "__init__"
    /\ call' = [op |-> "__add__"]
    /\ ret' = __add__(comp[1], comp[2])
    /\ UNCHANGED <<cls, host, comp, nIndexed>>

(* comp[0] == comp[1] *)
Eq ==
    /\ call.op = "__init__"
    /\ call' = [op |-> "__eq__"]
    /\ ret' = Ok(ComponentIndex__eq__(comp[1], comp[2]))
    /\ UNCHANGED <<cls, host, comp, nIndexed>>

(* indices = set(); indices.update(comp) *)
Collect ==
    /\ call.op = "__init__"
    /\ call' = [op |-> "set"]
    /\ ret' = Ok(setUpdate(<< >>, comp))
    /\ UNCHANGED <<cls, host, comp, nIndexed>>

IndexNext == Add \/ Eq \/ Collect

IndexSpec == IndexInit /\ [][IndexNext]_vars

----------------------------------------------------------------------------
(* The maya slice codec of one-dimensional discrete components *)

RECURSIVE sorted(_)
sorted(S) ==
    IF S = {} THEN << >>
    ELSE LET least == CHOOSE x \in S : \A y \in S : x <= y
         IN  <<least>> \o sorted(S \ {least})

(* the last position of the run of s that starts at i with the given step *)
RECURSIVE runEnd(_, _, _)
runEnd(s, i, step) ==
    IF i < Len(s) /\ s[i + 1] - s[i] = step THEN runEnd(s, i + 1, step) ELSE i

(* the runs of the ascending sequence s from position i on, each as a      *)
(* python slice: its stop is one past the last member of the run           *)
RECURSIVE slicesFrom(_, _)
slicesFrom(s, i) ==
    IF i > Len(s) THEN << >>
    ELSE IF i = Len(s)
    THEN << HashableSlice(Some(s[i]), Some(s[i] + 1), None) >>
    ELSE << HashableSlice(Some(s[i]),
                          Some(s[runEnd(s, i + 1, s[i + 1] - s[i])] + 1),
                          Some(s[i + 1] - s[i])) >>
         \o slicesFrom(s, runEnd(s, i + 1, s[i + 1] - s[i]) + 1)

(* _util.sequenceToSlices: maximal runs with a common step of the sorted   *)
(* sequence                                                                *)
sequenceToSlices(array) ==
    slicesFrom(sorted({ array[i] : i \in 1..Len(array) }), 1)

(* mutant: the slices keep python's exclusive stop *)
_sequenceToComponentSlice_pythonStop(array) == sequenceToSlices(array)

_sequenceToComponentSlice(array) ==
    [i \in 1..Len(sequenceToSlices(array)) |->
        HashableSlice(sequenceToSlices(array)[i].start,
                      Some(Val(sequenceToSlices(array)[i].stop) - 1),
                      sequenceToSlices(array)[i].step)]

(* a formatted string is the format with the numbers put into it *)
_formatSlice(sliceObj) ==
    IF sliceObj.start = sliceObj.stop
    THEN [format |-> "%s", args |-> <<Val(sliceObj.start)>>]
    ELSE IF sliceObj.step # None /\ Val(sliceObj.step) # 1
    THEN [format |-> "%s:%s:%s",
          args |-> <<Val(sliceObj.start), Val(sliceObj.stop), Val(sliceObj.step)>>]
    ELSE [format |-> "%s:%s",
          args |-> <<Val(sliceObj.start), Val(sliceObj.stop)>>]

(* Component1D.indicesIter: the first entry of every index of the component *)
indicesIter(c, h, self) ==
    Bind(_flattenIndex(c, h, Val(self._indices), TRUE),
         LAMBDA leaves : Ok([i \in 1..Len(leaves) |-> leaves[i].entries[1].v]))

(* Component1D.name for a component of several indices: the formatted      *)
(* slices that ','.join puts in place of the '*' of the complete name      *)
Component1D_name(c, h, self) ==
    Bind(indicesIter(c, h, self),
         LAMBDA array :
            Ok([i \in 1..Len(_sequenceToComponentSlice(array)) |->
                   _formatSlice(_sequenceToComponentSlice(array)[i])]))

(* one comma-separated part of an index group of an address string, read   *)
(* as the grammar of addresses has it: a scalar or a range                 *)
parseIndex(str) ==
    CASE str.format = "%s" -> Num(str.args[1])
      [] str.format = "%s:%s" ->
           HashableSlice(Some(str.args[1]), Some(str.args[2]), None)
      [] str.format = "%s:%s:%s" ->
           HashableSlice(Some(str.args[1]), Some(str.args[2]), Some(str.args[3]))

(* the indices the parts of an index group denote, each part flattened *)
RECURSIVE decode(_, _, _, _)
decode(c, h, label, strs) ==
    IF strs = << >> THEN Ok(<< >>)
    ELSE Bind(_flattenIndex(c, h, ComponentIndex(<<parseIndex(Head(strs))>>, label),
                            TRUE),
              LAMBDA leaves :
                 Bind(decode(c, h, label, Tail(strs)),
                      LAMBDA rest :
                         Ok([i \in 1..Len(leaves) |-> leaves[i].entries[1].v]
                            \o rest)))

IndexSets == (SUBSET (0..MaxSeq)) \ { {} }

(* a mesh of MaxSeq + 1 vertices and a vertex component of some of them *)
CodecInit ==
    /\ cls = "MeshVertex"
    /\ host = [DefaultHost EXCEPT !.numVertices = MaxSeq + 1,
                                  !.connectedFaces = [v \in 1..(MaxSeq + 1) |-> <<3>>]]
    /\ \E S \in IndexSets :
          comp = [_indices |->
                     Some(ComponentIndex(
                            << List([i \in 1..Cardinality(S) |-> Num(sorted(S)[i])]) >>,
                            Some(initialLabel(cls)))),
                  _partialIndex |-> None]
    /\ call = [op |-> "__init__"]
    /\ ret = Ok(None)
    /\ nIndexed = 0

(* comp.name() *)
Name ==
    /\ call.op = "__init__"
    /\ call' = [op |-> "name"]
    /\ ret' = Component1D_name(cls, host, comp)
    /\ UNCHANGED <<cls, host, comp, nIndexed>>

(* the name is read back into indices *)
Decode ==
    /\ call.op = "name"
    /\ IsOk(ret)
    /\ call' = [op |-> "decode", address |-> ret.value]
    /\ ret' = decode(cls, host, Val(comp._indices).label, ret.value)
    /\ UNCHANGED <<cls, host, comp, nIndexed>>

CodecNext == Name \/ Decode

CodecSpec == CodecInit /\ [][CodecNext]_vars

----------------------------------------------------------------------------
(* Index flattening on its own: a caller that flattens one index on a      *)
(* fresh component, and flattens it once more on the unchanged scene       *)

(* scenes of the flatten calls: those of the session, and surfaces of up   *)
(* to MaxCVs control vertices along each parameter                         *)
FlattenHosts(c) ==
    IF c = "NurbsSurfaceCV"
    THEN Hosts(c) \cup
         { [DefaultHost EXCEPT !.numCVsInU = a, !.numCVsInV = b] :
             a \in {3, MaxCVs}, b \in {2, MaxCVs} }
    ELSE Hosts(c)

FlattenEntries ==
    { Num(v) : v \in {-1, 0, 1} }
      \cup { HashableSlice(a, b, s) :
               a \in {None, Some(0), Some(1)},
               b \in {None, Some(1), Some(2), Some(-1)},
               s \in {None, Some(2)} }
      \cup { List(<<Num(1), Num(0)>>) }

(* the indices of up to n entries *)
RECURSIVE FlattenTuples(_)
FlattenTuples(n) ==
    IF n = 0 THEN { << >> }
    ELSE FlattenTuples(n - 1) \cup
         { Append(t, e) : t \in { u \in FlattenTuples(n - 1) : Len(u) = n - 1 },
                          e \in FlattenEntries }

FlattenInit ==
    /\ cls \in Classes
    /\ host \in FlattenHosts(cls)
    /\ comp = DimensionedComponent__init__(cls, None)
    /\ call = [op |-> "__init__"]
    /\ ret = Ok(None)
    /\ nIndexed = 0

(* comp._flattenIndex(index) *)
Flatten(index) ==
    /\ call.op = "__init__"
    /\ call' = [op |-> "_flattenIndex", index |-> index, nth |-> 1, first |-> ret]
    /\ ret' = _flattenIndex(cls, host, index, TRUE)
    /\ UNCHANGED <<cls, host, comp, nIndexed>>

(* comp._flattenIndex(index) with the index of the call before *)
FlattenAgain ==
    /\ call.op = "_flattenIndex"
    /\ call.nth = 1
    /\ call' = [op |-> "_flattenIndex", index |-> call.index, nth |-> 2, first |-> ret]
    /\ ret' = _flattenIndex(cls, host, call.index, TRUE)
    /\ UNCHANGED <<cls, host, comp, nIndexed>>

FlattenNext ==
    \/ \E t \in FlattenTuples(dimensions(cls)) :
          Flatten(ComponentIndex(t, Some(initialLabel(cls))))
    \/ FlattenAgain

FlattenSpec == FlattenInit /\ [][FlattenNext]_vars

----------------------------------------------------------------------------
(* Component objects with their API handle and their flat cursor.  An      *)
(* object is a record of the attributes the methods below read and write:  *)
(* _indices, _partialIndex, _currentDimension (None while the attribute is *)
(* not set), _stopIteration, _currentFlatIndex, MObjectHandle and          *)
(* MFnComponent (the two entries of __apiobjects__) and _storedLen (None   *)
(* while the attribute is not set).  A method returns the object as it     *)
(* leaves it together with what it returned or raised.                     *)

Returns(self, r) == [self |-> self, ret |-> r]

(* the rest of a method runs on the object and the value a call inside it  *)
(* returned, a raise ends it                                               *)
Then(r, rest(_, _)) == IF IsOk(r.ret) THEN rest(r.self, r.ret.value) ELSE r

(* the class attribute _ComponentLabel__ *)
_ComponentLabel__(c) ==
    IF c = "NurbsSurfaceIsoparm" THEN <<"u", "v", "uv">> ELSE initialLabel(c)

(* MFnComponent.elementCount(): a component marked as complete answers 0,  *)
(* even if it is not truly empty                                           *)
elementCount(handle) ==
    IF handle.complete THEN 0 ELSE Len(handle.elements)

(* mutant: a component made from a handle can never be indexed *)
DimensionedComponent__init___neverIndexable(c, handle) ==
    [_indices |-> None, _partialIndex |-> None]

(* cls(node, mobject): the MObjectHandle is given and no ComponentIndex,   *)
(* so _indices is None and the label stays the class attribute; the        *)
(* component can be indexed only if the handle's component is complete     *)
DimensionedComponent__init__handle(c, handle) ==
    LET isComplete == handle.complete
    IN  [_indices |-> None,
         _partialIndex |->
             IF isComplete
             THEN Some(ComponentIndex(<< >>, Some(_ComponentLabel__(c))))
             ELSE None]

(* DiscreteComponent.reset *)
reset(self) ==
    [self EXCEPT !._stopIteration = FALSE, !._currentFlatIndex = 0]

(* DiscreteComponent.__init__: reset() and then the constructors above it, *)
(* which gave the attributes attrs; handle is None or Some(handle).  The   *)
(* continuous classes have no cursor: none of their methods reads it.      *)
DiscreteComponent__init__(attrs, handle) ==
    reset([_indices |-> attrs._indices,
           _partialIndex |-> attrs._partialIndex,
           _currentDimension |-> None,
           _stopIteration |-> FALSE,
           _currentFlatIndex |-> 0,
           MObjectHandle |-> handle,
           MFnComponent |-> FALSE,
           _storedLen |-> None])

(* currentDimension() on an object: the answer is stored on the first call *)
DimensionedComponent_currentDimension(c, self) ==
    IF self._currentDimension = None
    THEN Returns([self EXCEPT !._currentDimension = Some(currentDimension(c, self))],
                 Ok(currentDimension(c, self)))
    ELSE Returns(self, Ok(Val(self._currentDimension)))

(* self.__class__(self._node, index): the attributes DimensionedComponent  *)
(* gave the new component, made into an object                             *)
constructed(r) ==
    IF IsOk(r) THEN Ok(DiscreteComponent__init__(r.value, None)) ELSE r

(* mutant: the entry is appended to the receiver's own index as well *)
DimensionedComponent__getitem___inPlace(c, h, self, item) ==
    Then(Returns(self, __getitem__(c, h, self, item)),
         LAMBDA self1, attrs :
            Returns([self1 EXCEPT !._indices = attrs._indices,
                                  !._partialIndex = attrs._partialIndex],
                    Ok(DiscreteComponent__init__(attrs, None))))

(* __getitem__ on an object: the component returned is a new object made   *)
(* by the class constructor                                                *)
DimensionedComponent__getitem__(c, h, self, item) ==
    Then(DimensionedComponent_currentDimension(c, self),
         LAMBDA self1, dim :
            Returns(self1, constructed(__getitem__(c, h, self1, item))))
----------------------------------------------------------------------------
(* The API handle of a component.  The handle of a class with integer      *)
(* elements is [complete, elements]; the handle of a class addressed by    *)
(* strings (the continuous classes and Component1D64) carries the address  *)
(* strings it was resolved from, names.                                    *)

(* the classes whose handle lists integer elements *)
ElementClasses == DiscreteClasses \ {"SubdVertex"}

(* tuple(indices): the members of the set in the order the set iterates    *)
(* them, which their hashes decide: order is any permutation               *)
picked(indices, positions) ==
    [k \in 1..Len(indices) |-> indices[positions[k]]]

tupleOf(indices, order) ==
    IF Len(indices) > Len(order) THEN indices
    ELSE picked(indices, SelectSeq(order, LAMBDA i : i <= Len(indices)))

hasIterable(index) ==
    \E d \in 1..Len(index.entries) :
        index.entries[d].kind \notin VALID_SINGLE_INDEX_TYPES

(* _standardizeIndices(self._indices) for None or a ComponentIndex.  An    *)
(* index with a list among its entries is taken as an iterable of single   *)
(* indices (or refused outright by a continuous class), and none of its    *)
(* members passes alone.                                                   *)
_standardizeIndices(c, h, indexObjs, order) ==
    Bind(Ok(IF indexObjs = None THEN ComponentIndex(<< >>, None)
            ELSE Val(indexObjs)),
         LAMBDA index :
            IF ~hasIterable(index)
            THEN Bind(_flattenIndex(c, h, index, TRUE),
                      LAMBDA leaves : Ok(tupleOf(setUpdate(<< >>, leaves), order)))
            ELSE IF c \in DiscreteClasses
                      /\ Head(index.entries).kind \in VALID_SINGLE_INDEX_TYPES
                 THEN Raise("IndexError",
                            "Single Index given for a multi-dimensional component")
                 ELSE Raise("IndexError", "Invalid indices for component"))

(* Component.plugAttr() of a component made without a handle: the label of *)
(* the index it was given, or else the initial label                       *)
plugAttr(c, self) ==
    IF /\ self._indices # None
       /\ Val(self._indices).entries # << >>
       /\ Val(self._indices).label # None
    THEN Val(Val(self._indices).label)
    ELSE initialLabel(c)

(* ComponentIndex(('*',)*dimNum, index.label) *)
starIndex(dimNum, label) ==
    ComponentIndex([k \in 1..dimNum |-> [kind |-> "str", v |-> "*"]], label)

(* mutant: an open start is 0 on every domain *)
nameStart_zero(c, h, index, d) ==
    IF index.entries[d].start # None THEN Ok(Val(index.entries[d].start))
    ELSE Ok(0)

(* the start put into "%s:%s" *)
nameStart(c, h, index, d) ==
    IF index.entries[d].start # None THEN Ok(Val(index.entries[d].start))
    ELSE IF c \in DiscreteClasses THEN Ok(0)
    ELSE Bind(_dimRange(c, h, starIndex(d - 1, index.label)),
              LAMBDA range : Ok(range[1]))

(* the stop put into "%s:%s" *)
nameStop(c, h, index, d) ==
    IF index.entries[d].stop # None THEN Ok(Val(index.entries[d].stop))
    ELSE Bind(_dimRange(c, h, starIndex(d - 1, index.label)),
              LAMBDA range : Ok(range[2]))

(* what '[%s]' % dimIndex is given for entry d of the index *)
dimName(c, h, index, d) ==
    IF index.entries[d].kind = "slice"
    THEN IF index.entries[d].start = None /\ index.entries[d].stop = None
         THEN Ok([format |-> "*", args |-> << >>])
         ELSE Bind(nameStart(c, h, index, d),
                   LAMBDA start :
                      Bind(nameStop(c, h, index, d),
                           LAMBDA stop :
                              Ok([format |-> "%s:%s", args |-> <<start, stop>>])))
    ELSE Ok([format |-> "%s", args |-> <<index.entries[d].v>>])

RECURSIVE dimNames(_, _, _, _)
dimNames(c, h, index, d) ==
    IF d > Len(index.entries) THEN Ok(<< >>)
    ELSE Bind(dimName(c, h, index, d),
              LAMBDA name :
                 Bind(dimNames(c, h, index, d + 1),
                      LAMBDA rest : Ok(<<name>> \o rest)))

(* compName: the complete name of the component and one group per entry *)
compName(c, h, self, index) ==
    Bind(dimNames(c, h, index, 1),
         LAMBDA dims : Ok([plugAttr |-> plugAttr(c, self), dims |-> dims]))

(* selList.add(compName) for every index: the first name the scene does    *)
(* not resolve raises                                                      *)
RECURSIVE addNames(_, _, _, _)
addNames(c, h, self, indices) ==
    IF indices = << >> THEN Ok(<< >>)
    ELSE Bind(compName(c, h, self, Head(indices)),
              LAMBDA name :
                 IF ~h.resolves THEN Raise("MayaComponentError", name)
                 ELSE Bind(addNames(c, h, self, Tail(indices)),
                           LAMBDA rest : Ok(<<name>> \o rest)))

(* DimensionedComponent._makeIndexedComponentHandle: the handle of what    *)
(* the selection list resolved                                             *)
DimensionedComponent_makeIndexedComponentHandle(c, h, self, indices) ==
    Bind(addNames(c, h, self, indices),
         LAMBDA names : Ok([names |-> names]))

(* Component._makeComponentHandle where MFnComponent.create succeeds, as   *)
(* it does for the classes with integer elements: a component without      *)
(* elements, marked complete                                               *)
Component_makeComponentHandle(c, h, self) ==
    Ok([complete |-> TRUE, elements |-> << >>])

(* the arrays handed to addElements, element by element *)
elementsOf(indices) ==
    [k \in 1..Len(indices) |->
        [d \in 1..Len(indices[k].entries) |-> indices[k].entries[d].v]]

(* DiscreteComponent._makeIndexedComponentHandle: the created component is *)
(* empty, so it is marked incomplete and given the elements; addElements   *)
(* without a single array is for the API to accept or to refuse            *)
DiscreteComponent_makeIndexedComponentHandle(c, h, self, indices) ==
    Bind(Component_makeComponentHandle(c, h, self),
         LAMBDA handle :
            IF indices = << >> /\ ~h.addsNothing
            THEN Raise("TypeError", "addElements")
            ELSE Ok([handle EXCEPT !.complete = FALSE,
                                   !.elements = elementsOf(indices)]))

_makeIndexedComponentHandle(c, h, self, indices) ==
    IF c \in ElementClasses
    THEN DiscreteComponent_makeIndexedComponentHandle(c, h, self, indices)
    ELSE DimensionedComponent_makeIndexedComponentHandle(c, h, self, indices)

(* DimensionedComponent._makeComponentHandle *)
_makeComponentHandle(c, h, self, order) ==
    Bind(_standardizeIndices(c, h, self._indices, order),
         LAMBDA indices : _makeIndexedComponentHandle(c, h, self, indices))

(* _api.isValidMObjectHandle(handle): every handle made above is of a      *)
(* component the scene holds                                               *)
isValidMObjectHandle(handle) == handle # None

(* mutant: the handle is stored before it is known to be one *)
(* mutant: whatever making the handle came to is stored *)
stored_unchecked(c, self, handle) ==
    IF ~IsOk(handle)
    THEN Returns([self EXCEPT !.MObjectHandle = Some(None)], handle)
    ELSE Returns([self EXCEPT !.MObjectHandle = Some(handle.value)], handle)

(* the handle made is stored only if it is one and is valid *)
stored(c, self, handle) ==
    IF ~IsOk(handle)
    THEN Returns(self, handle)
    ELSE IF ~isValidMObjectHandle(handle.value)
    THEN Returns(self, Raise("MayaObjectError", plugAttr(c, self)))
    ELSE Returns([self EXCEPT !.MObjectHandle = Some(handle.value)], handle)

__apihandle__(c, h, self, order) ==
    IF self.MObjectHandle # None
    THEN Returns(self, Ok(Val(self.MObjectHandle)))
    ELSE stored(c, self, _makeComponentHandle(c, h, self, order))

(* __apimobject__: the object of the handle, if the handle is valid *)
__apimobject__(c, h, self, order) ==
    Then(__apihandle__(c, h, self, order),
         LAMBDA self1, handle :
            IF isValidMObjectHandle(handle)
            THEN Returns(self1, Ok(handle))
            ELSE Returns(self1, Raise("MayaObjectError", plugAttr(c, self1))))

(* __apicomponent__: the function set on the object, kept once made *)
__apicomponent__(c, h, self, order) ==
    IF self.MFnComponent
    THEN Returns(self, Ok(Val(self.MObjectHandle)))
    ELSE Then(__apimobject__(c, h, self, order),
              LAMBDA self1, mobject :
                 Returns([self1 EXCEPT !.MFnComponent = TRUE], Ok(mobject)))

(* mutant: a component that can still be indexed is counted by flattening *)
(* its partial index, without a handle                                     *)
DiscreteComponent__len___enumerated(c, h, self, order) ==
    IF self._partialIndex # None
    THEN Returns(self, Bind(_flattenIndex(c, h, Val(self._partialIndex), TRUE),
                            LAMBDA leaves : Ok(Len(leaves))))
    ELSE Then(__apicomponent__(c, h, self, order),
              LAMBDA self1, mfnComp : Returns(self1, Ok(elementCount(mfnComp))))

(* DiscreteComponent.__len__ *)
DiscreteComponent__len__(c, h, self, order) ==
    Then(__apicomponent__(c, h, self, order),
         LAMBDA self1, mfnComp : Returns(self1, Ok(elementCount(mfnComp))))

(* __melobject__: the selection strings of the component's object, each    *)
(* put behind the node's name; the scene gives back the names it resolved  *)
__melobject__(c, h, self, order) ==
    Then(__apimobject__(c, h, self, order),
         LAMBDA self1, mobject : Returns(self1, Ok(mobject.names)))

(* newComps of one string: the groups with a ':' multiply by their span *)
RECURSIVE newComps(_)
newComps(dims) ==
    IF dims = << >> THEN 1
    ELSE (IF Head(dims).format = "%s:%s"
          THEN Head(dims).args[2] - Head(dims).args[1] + 1
          ELSE 1) * newComps(Tail(dims))

RECURSIVE numComponentsFromStrings(_)
numComponentsFromStrings(componentStrings) ==
    IF componentStrings = << >> THEN 0
    ELSE newComps(Head(componentStrings).dims)
           + numComponentsFromStrings(Tail(componentStrings))

(* a method's outcome with the number of times it asked the scene for the *)
(* selection strings                                                       *)
withTrips(r, trips) == [self |-> r.self, ret |-> r.ret, trips |-> trips]

(* mutant: the count is worked out on every call *)
Component1D64__len___notStored(c, h, self, order) ==
    withTrips(Then(__melobject__(c, h, self, order),
                   LAMBDA self1, melStrings :
                      Returns(self1, Ok(numComponentsFromStrings(melStrings)))),
              1)

(* the strings are asked for once the object is there: a call that raised  *)
(* before did not ask                                                      *)
counted(r) == withTrips(r, IF IsOk(r.ret) THEN 1 ELSE 0)

(* Component1D64.__len__ *)
Component1D64__len__(c, h, self, order) ==
    IF self._storedLen # None
    THEN withTrips(Returns(self, Ok(Val(self._storedLen))), 0)
    ELSE counted(Then(__melobject__(c, h, self, order),
                      LAMBDA self1, melStrings :
                         Then(Returns(self1, Ok(numComponentsFromStrings(melStrings))),
                              LAMBDA self2, count :
                                 Returns([self2 EXCEPT !._storedLen = Some(count)],
                                         Ok(count)))))

(* count(): len(self) as the class resolves it *)
count(c, h, self, order) ==
    IF c = "SubdVertex"
    THEN Component1D64__len__(c, h, self, order)
    ELSE withTrips(DiscreteComponent__len__(c, h, self, order), 0)

(* len(self) inside another method *)
__len__(c, h, self, order) ==
    Then(count(c, h, self, order),
         LAMBDA self1, length : Returns(self1, Ok(length)))
----------------------------------------------------------------------------
(* The flat cursor of a discrete component *)

(* mutant: the index one past the last element is taken as well *)
setIndex_uptoLength(c, h, self, index, order) ==
    Then(__len__(c, h, self, order),
         LAMBDA self1, length :
            IF ~(0 <= index /\ index <= length)
            THEN Returns(self1, Raise("IndexError", ""))
            ELSE Returns([self1 EXCEPT !._currentFlatIndex = index], Ok(None)))

(* DiscreteComponent.setIndex *)
setIndex(c, h, self, index, order) ==
    Then(__len__(c, h, self, order),
         LAMBDA self1, length :
            IF ~(0 <= index /\ index < length)
            THEN Returns(self1, Raise("IndexError", ""))
            ELSE Returns([self1 EXCEPT !._currentFlatIndex = index], Ok(None)))

(* ComponentIndex([x.get() for x in dimensionIndicePtrs]) *)
curIndex(element) ==
    ComponentIndex([d \in 1..Len(element) |-> Num(element[d])], None)

(* DiscreteComponent.currentItem: a new component of the class on the      *)
(* element the cursor is at                                                *)
currentItem(c, h, self, order) ==
    Then(__apicomponent__(c, h, self, order),
         LAMBDA self1, mfncomp :
            Returns(self1,
                    Ok(DiscreteComponent__init__(
                          DimensionedComponent__init__(c,
                             Some(curIndex(mfncomp.elements[self1._currentFlatIndex + 1]))),
                          None))))

(* try: self.setIndex(self.getIndex() + 1)                                 *)
(* except IndexError: self._stopIteration = True                           *)
caught(moved) ==
    IF IsOk(moved.ret) THEN moved
    ELSE IF moved.ret.exc = "IndexError"
    THEN Returns([moved.self EXCEPT !._stopIteration = TRUE], Ok(None))
    ELSE moved

advance(c, h, self, order) ==
    caught(setIndex(c, h, self, self._currentFlatIndex + 1, order))

(* mutant: the cursor is advanced before the item is taken *)
next_advanceFirst(c, h, self, order) ==
    IF self._stopIteration
    THEN Returns(self, Raise("StopIteration", ""))
    ELSE Then(__len__(c, h, self, order),
              LAMBDA self1, length :
                 IF length = 0
                 THEN Returns([self1 EXCEPT !._stopIteration = TRUE],
                              Raise("StopIteration", ""))
                 ELSE Then(advance(c, h, self1, order),
                           LAMBDA self2, none :
                              currentItem(c, h, self2, order)))

(* DiscreteComponent.next *)
next(c, h, self, order) ==
    IF self._stopIteration
    THEN Returns(self, Raise("StopIteration", ""))
    ELSE Then(__len__(c, h, self, order),
              LAMBDA self1, length :
                 IF length = 0
                 THEN Returns([self1 EXCEPT !._stopIteration = TRUE],
                              Raise("StopIteration", ""))
                 ELSE Then(currentItem(c, h, self1, order),
                           LAMBDA self2, toReturn :
                              Then(advance(c, h, self2, order),
                                   LAMBDA self3, none :
                                      Returns(self3, Ok(toReturn)))))

(* Iteration over the indices of a discrete component *)

(* the outcome of an iteration run to its end, with the iterator that was   *)
(* chosen and the number of times the handle was read (elementCount once,   *)
(* getElement or element once for every index)                              *)
withReads(r, iter, reads) ==
    [self |-> r.self, ret |-> r.ret, iter |-> iter, reads |-> reads]

(* DiscreteComponent._dimensionIter *)
_dimensionIter(c, h, self) ==
    withReads(Returns(self, _flattenIndex(c, h, Val(self._partialIndex), TRUE)),
              "_dimensionIter", 0)

flatRead(r) ==
    withReads(r, "_flatIter", IF IsOk(r.ret) THEN 1 + Len(r.ret.value) ELSE 0)

(* DiscreteComponent._flatIter and Component1D._flatIter *)
_flatIter(c, h, self, order) ==
    flatRead(Then(__apicomponent__(c, h, self, order),
                  LAMBDA self1, mfncomp :
                     Then(DiscreteComponent__len__(c, h, self1, order),
                          LAMBDA self2, length :
                             Returns(self2,
                                     Ok([i \in 1..length |->
                                           curIndex(mfncomp.elements[i])])))))

chosenIter(c, h, dim, order) ==
    IF dim.ret.value = None
    THEN _flatIter(c, h, dim.self, order)
    ELSE _dimensionIter(c, h, dim.self)

(* mutant: every component is iterated through its handle *)
_compIndexObjIter_alwaysFlat(c, h, self, order) ==
    _flatIter(c, h, DimensionedComponent_currentDimension(c, self).self, order)

(* DiscreteComponent._compIndexObjIter, run to its end *)
_compIndexObjIter(c, h, self, order) ==
    chosenIter(c, h, DimensionedComponent_currentDimension(c, self), order)

----------------------------------------------------------------------------
(* A session holding one component object: indexing it, asking its handle  *)
(* and its count, and walking its cursor                                   *)

(* the scene with the answers of the API: whether it resolves address      *)
(* strings, and whether addElements takes no array                         *)
withApi(h, resolves, addsNothing) ==
    [numVertices |-> h.numVertices, connectedFaces |-> h.connectedFaces,
     numCVsInU |-> h.numCVsInU, numCVsInV |-> h.numCVsInV,
     knotDomain |-> h.knotDomain,
     resolves |-> resolves, addsNothing |-> addsNothing]

RECURSIVE sumLen(_)
sumLen(seqs) == IF seqs = << >> THEN 0 ELSE Len(Head(seqs)) + sumLen(Tail(seqs))

(* the number of elements of the whole component *)
numElements(c, h) ==
    CASE c = "MeshVertex" -> h.numVertices
      [] c = "NurbsSurfaceCV" -> h.numCVsInU * h.numCVsInV
      [] c = "MeshVertexFace" -> sumLen(h.connectedFaces)
      [] OTHER -> 1

Scenes(c) ==
    CASE c = "MeshVertex" ->
           { [DefaultHost EXCEPT !.numVertices = n,
                                 !.connectedFaces = [v \in 1..n |-> <<3>>]] :
               n \in 1..MaxElements }
      [] c = "NurbsSurfaceCV" ->
           { [DefaultHost EXCEPT !.numCVsInU = a, !.numCVsInV = b] :
               a \in 1..MaxElements, b \in 1..MaxElements }
      [] OTHER -> Hosts(c)

(* the class decides which of the two answers its handle depends on *)
ObjectHosts(c) ==
    { withApi(h, resolves, addsNothing) :
        h \in { s \in Scenes(c) : numElements(c, s) <= MaxElements },
        resolves \in IF c \in ElementClasses THEN {TRUE} ELSE BOOLEAN,
        addsNothing \in IF c \in ElementClasses THEN BOOLEAN ELSE {TRUE} }

Orders ==
    { p \in [1..MaxElements -> 1..MaxElements] :
        \A i, j \in 1..MaxElements : p[i] = p[j] => i = j }

(* the orders a call on the component may meet: a component that has its  *)
(* handle makes no tuple of a set                                          *)
OrdersFor(self) ==
    IF self.MObjectHandle = None THEN Orders
    ELSE { [i \in 1..MaxElements |-> i] }

(* the elements of the whole component, as the scene lists them *)
allElements(c, h) ==
    elementsOf(_flattenIndex(c, h, EmptyIndex, TRUE).value)

(* the handles a component may be constructed on: the whole component,     *)
(* marked complete, or a listed part of it: none, the first or all of its  *)
(* elements; for a class addressed by strings the names it resolves from   *)
GivenHandles(c, h) ==
    IF c \in ElementClasses
    THEN { [complete |-> TRUE, elements |-> allElements(c, h)] }
           \cup { [complete |-> FALSE, elements |-> SubSeq(allElements(c, h), 1, n)] :
                    n \in {0, 1, Len(allElements(c, h))} }
    ELSE { [complete |-> TRUE,
            names |-> << [plugAttr |-> initialLabel(c),
                          dims |-> [d \in 1..dimensions(c) |->
                                       [format |-> "*", args |-> << >>]]] >>],
           [complete |-> FALSE,
            names |-> << [plugAttr |-> initialLabel(c),
                          dims |-> [d \in 1..dimensions(c) |->
                                       [format |-> "%s", args |-> <<0>>]]] >>] }

ObjectItems ==
    { Num(v) : v \in {-1, 0, 1, MaxElements} }
      \cup { HashableSlice(a, b, s) : a \in {None, Some(0), Some(1)},
                                      b \in {None, Some(0), Some(MaxElements)},
                                      s \in {None, Some(2)} }
      \cup { HashableSlice(None, None, Some(-1)) }
      \cup { List(<< >>), List(<<Num(0)>>) }

ObjectInit ==
    /\ cls \in Classes
    /\ host \in ObjectHosts(cls)
    /\ \/ comp = DiscreteComponent__init__(DimensionedComponent__init__(cls, None), None)
       \/ \E handle \in GivenHandles(cls, host) :
             comp = DiscreteComponent__init__(
                        DimensionedComponent__init__handle(cls, handle), Some(handle))
    /\ call = [op |-> "__init__", nth |-> Some(0)]
    /\ ret = Ok(None)
    /\ nIndexed = 0

(* the record of a call: what was called, the receiver as the call left it *)
(* (after), what it returned or raised (ret), and the count of next()      *)
(* calls, which is nthOk after a call that returned and nthRaised else     *)
called(what, done, nthOk, nthRaised) ==
    [f \in DOMAIN what \cup {"after", "ret", "nth"} |->
        CASE f = "after" -> done.self
          [] f = "ret" -> done.ret
          [] f = "nth" -> (IF IsOk(done.ret) THEN nthOk ELSE nthRaised)
          [] OTHER -> what[f]]

(* the session runs until a call raises; the end of an iteration is the    *)
(* one exception its loop catches                                          *)
running == IsOk(ret) \/ ret.exc = "StopIteration"

(* comp = comp[item]: the session goes on with the component returned.     *)
(* nth counts the calls of next() on the component held since it was made  *)
(* or reset, and is None once setIndex has moved its cursor; first tells   *)
(* that the receiver is the component the session started with, before any *)
(* other call on it.                                                       *)
ObjGetItem(item) ==
    /\ running
    /\ call' = called([op |-> "__getitem__", self |-> comp, item |-> item,
                       first |-> call.op = "__init__"],
                      DimensionedComponent__getitem__(cls, host, comp, item),
                      Some(0), call.nth)
    /\ ret' = call'.ret
    /\ comp' = IF IsOk(ret') THEN ret'.value ELSE call'.after
    /\ nIndexed' = IF IsOk(ret') THEN nIndexed + 1 ELSE nIndexed
    /\ UNCHANGED <<cls, host>>

(* comp.__apihandle__() *)
ApiHandle(order) ==
    /\ running
    /\ call' = called([op |-> "__apihandle__", self |-> comp],
                      __apihandle__(cls, host, comp, order), call.nth, call.nth)
    /\ ret' = call'.ret
    /\ comp' = call'.after
    /\ UNCHANGED <<cls, host, nIndexed>>

(* the record of a count(): trips is the number of times it asked the      *)
(* scene for the selection strings, again whether the call before was a    *)
(* count() of the same component that returned                             *)
counting(what, done, nth) ==
    [f \in DOMAIN what \cup {"after", "ret", "nth", "trips"} |->
        CASE f = "after" -> done.self
          [] f = "ret" -> done.ret
          [] f = "nth" -> nth
          [] f = "trips" -> done.trips
          [] OTHER -> what[f]]

(* comp.count() *)
Count(order) ==
    /\ running
    /\ cls \in DiscreteClasses
    /\ call' = counting([op |-> "count", self |-> comp,
                         again |-> call.op = "count" /\ IsOk(ret)],
                        count(cls, host, comp, order), call.nth)
    /\ ret' = call'.ret
    /\ comp' = call'.after
    /\ UNCHANGED <<cls, host, nIndexed>>

countedNext(nth) == IF nth = None THEN None ELSE Some(Val(nth) + 1)

(* the index the call before put the cursor at, if it was a setIndex that  *)
(* returned                                                                *)
movedTo == IF call.op = "setIndex" /\ IsOk(ret) THEN Some(call.index) ELSE None

(* comp.next(), on the classes whose handle lists integer elements *)
CursorNext(order) ==
    /\ running
    /\ cls \in ElementClasses
    /\ call.nth # None => Val(call.nth) < MaxNext
    /\ call' = called([op |-> "next", self |-> comp, moved |-> movedTo],
                      next(cls, host, comp, order),
                      countedNext(call.nth), countedNext(call.nth))
    /\ ret' = call'.ret
    /\ comp' = call'.after
    /\ UNCHANGED <<cls, host, nIndexed>>

(* comp.reset() *)
CursorReset ==
    /\ running
    /\ cls \in DiscreteClasses
    /\ call' = called([op |-> "reset", self |-> comp],
                      Returns(reset(comp), Ok(None)), Some(0), Some(0))
    /\ ret' = call'.ret
    /\ comp' = call'.after
    /\ UNCHANGED <<cls, host, nIndexed>>

(* comp.setIndex(index) *)
CursorSetIndex(index, order) ==
    /\ running
    /\ cls \in DiscreteClasses
    /\ call' = called([op |-> "setIndex", self |-> comp, index |-> index],
                      setIndex(cls, host, comp, index, order), None, call.nth)
    /\ ret' = call'.ret
    /\ comp' = call'.after
    /\ UNCHANGED <<cls, host, nIndexed>>

(* the record of an iteration: the iterator chosen and its reads of the    *)
(* handle are kept with the call                                           *)
iterating(what, done, nth) ==
    [f \in DOMAIN what \cup {"after", "ret", "nth", "iter", "reads"} |->
        CASE f = "after" -> done.self
          [] f = "ret" -> done.ret
          [] f = "nth" -> nth
          [] f = "iter" -> done.iter
          [] f = "reads" -> done.reads
          [] OTHER -> what[f]]

(* list(comp._compIndexObjIter()), on the classes whose handle lists       *)
(* integer elements                                                        *)
Indices(order) ==
    /\ running
    /\ cls \in ElementClasses
    /\ call' = iterating([op |-> "_compIndexObjIter", self |-> comp],
                         _compIndexObjIter(cls, host, comp, order), call.nth)
    /\ ret' = call'.ret
    /\ comp' = call'.after
    /\ UNCHANGED <<cls, host, nIndexed>>

(* a session that indexes a component and asks for its handle *)
ObjectNext ==
    \/ \E item \in ObjectItems : ObjGetItem(item)
    \/ \E order \in OrdersFor(comp) : ApiHandle(order)

ObjectSpec == ObjectInit /\ [][ObjectNext]_vars

(* the entries a session walking the cursor indexes with: some that pass   *)
(* and some that are refused                                               *)
CursorItems ==
    { Num(0), Num(MaxElements), WildcardSlice,
      HashableSlice(Some(0), Some(1), None),
      HashableSlice(None, None, Some(-1)), List(<< >>), List(<<Num(0)>>) }

(* the indices setIndex is called with, one before the first and one past  *)
(* the last of the largest component among them                            *)
CursorIndices == (-1)..MaxElements

CursorInit ==
    /\ cls \in DiscreteClasses
    /\ ObjectInit

(* a session that indexes a discrete component, counts it and walks its    *)
(* cursor                                                                  *)
CursorStep ==
    \/ \E item \in CursorItems : ObjGetItem(item)
    \/ \E order \in OrdersFor(comp) : Count(order)
    \/ \E order \in OrdersFor(comp) : CursorNext(order)
    \/ CursorReset
    \/ \E order \in OrdersFor(comp) : Indices(order)
    \/ \E index \in CursorIndices : \E order \in OrdersFor(comp) : CursorSetIndex(index, order)

CursorSpec == CursorInit /\ [][CursorStep]_vars

----------------------------------------------------------------------------
(* Option variables: OptionVarDict and OptionVarShelve of language.py.     *)
(* host.optionVars is the store of the optionVar command, comp._shelve the *)
(* shelve of the OptionVarShelve object.                                   *)

(* python values: s, v or b is the payload of a scalar, items that of a    *)
(* sequence                                                                *)
PyStr(v) == [kind |-> "str", s |-> v]
PyInt(v) == [kind |-> "int", v |-> v]
PyBool(v) == [kind |-> "bool", b |-> v]
PyFloat(v) == [kind |-> "float", v |-> v]
Tuple(items) == [kind |-> "tuple", items |-> items]
NoneType == [kind |-> "NoneType"]
Dict == [kind |-> "dict"]

(* int(val) of a number *)
int(val) == IF val.kind = "bool" THEN (IF val.b THEN 1 ELSE 0) ELSE val.v

(* a == b of python *)
RECURSIVE __eq__(_, _)
__eq__(a, b) ==
    CASE a.kind \in {"int", "bool", "float"} ->
           b.kind \in {"int", "bool", "float"} /\ int(a) = int(b)
      [] a.kind = "str" -> b.kind = "str" /\ a.s = b.s
      [] a.kind \in {"list", "tuple"} ->
           /\ b.kind = a.kind
           /\ Len(a.items) = Len(b.items)
           /\ \A i \in 1..Len(a.items) : __eq__(a.items[i], b.items[i])
      [] OTHER -> a.kind = b.kind

(* isinstance(elem, listType), listType being the type of a value *)
isinstance(elem, listType) ==
    CASE listType = "int" -> elem.kind \in {"int", "bool"}
      [] OTHER -> elem.kind = listType

(* what the command keeps of a python value given with a flag *)
melValue(flag, val) ==
    CASE flag = "stringValue" -> PyStr(val.s)
      [] flag = "intValue" -> PyInt(int(val))
      [] flag = "floatValue" -> PyFloat(int(val))

(* cmds.optionVar(exists=key) *)
exists(h, key) == h.optionVars[key] # None

(* cmds.optionVar(stringValue=[key, val]), intValue, floatValue *)
setValue(h, flag, key, val) ==
    [h EXCEPT !.optionVars[key] =
        Some([type |-> flag, array |-> FALSE, items |-> <<melValue(flag, val)>>])]

(* cmds.optionVar(stringValueAppend=[key, elem]), intValueAppend,          *)
(* floatValueAppend: the variable becomes an array                         *)
appendValue(h, flag, key, elem) ==
    [h EXCEPT !.optionVars[key] =
        Some([type |-> flag, array |-> TRUE,
              items |-> (IF exists(h, key) THEN Val(h.optionVars[key]).items
                                           ELSE << >>)
                           \o <<melValue(flag, elem)>>])]

(* cmds.optionVar(clearArray=key): an array of that name is emptied; where *)
(* there is none the session either makes an empty one or does nothing     *)
clearArray(h, key) ==
    IF exists(h, key) /\ Val(h.optionVars[key]).array
    THEN [h EXCEPT !.optionVars[key] =
             Some([Val(h.optionVars[key]) EXCEPT !.items = << >>])]
    ELSE IF h.clearCreates
    THEN [h EXCEPT !.optionVars[key] =
             Some([type |-> "intValue", array |-> TRUE, items |-> << >>])]
    ELSE h

(* cmds.optionVar(remove=key) *)
remove(h, key) == [h EXCEPT !.optionVars[key] = None]

(* cmds.optionVar(q=key): 0 for a variable that does not exist *)
query(h, key) ==
    IF ~exists(h, key) THEN PyInt(0)
    ELSE IF Val(h.optionVars[key]).array
    THEN List(Val(h.optionVars[key]).items)
    ELSE Val(h.optionVars[key]).items[1]

OptionVarDict_has_key(h, key) == exists(h, key)

(* OptionVarList(val, key) is a list that equals the list val *)
OptionVarDict__getitem__(h, key) ==
    IF ~OptionVarDict_has_key(h, key) THEN Raise("KeyError", key)
    ELSE Ok(query(h, key))

(* the loop over val[1:]: elem is val[i] *)
RECURSIVE appendElems(_, _, _, _, _, _)
appendElems(h, flag, key, listType, items, i) ==
    IF i > Len(items) THEN Returns(h, Ok(NoneType))
    ELSE IF ~isinstance(items[i], listType)
    THEN Returns(h, Raise("TypeError",
                          "all elements in list must be of the same datatype"))
    ELSE appendElems(appendValue(h, flag, key, items[i]),
                     flag, key, listType, items, i + 1)

(* the flag of a list after the type of its first element *)
listFlag(listType) ==
    CASE listType = "str" -> Ok("stringValue")
      [] listType \in {"int", "bool"} -> Ok("intValue")
      [] listType = "float" -> Ok("floatValue")
      [] OTHER -> Raise("TypeError", "is unsupported")

(* self is the store of the command as the call leaves it *)
OptionVarDict__setitem__(h, key, val) ==
    CASE val.kind = "str" -> Returns(setValue(h, "stringValue", key, val), Ok(NoneType))
      [] val.kind \in {"int", "bool"} ->
           Returns(setValue(h, "intValue", key, val), Ok(NoneType))
      [] val.kind = "float" ->
           Returns(setValue(h, "floatValue", key, val), Ok(NoneType))
      [] val.kind \in {"list", "tuple"} ->
           IF Len(val.items) = 0 THEN Returns(clearArray(h, key), Ok(NoneType))
           ELSE IF ~IsOk(listFlag(val.items[1].kind))
           THEN Returns(h, listFlag(val.items[1].kind))
           ELSE appendElems(setValue(h, listFlag(val.items[1].kind).value,
                                     key, val.items[1]),
                            listFlag(val.items[1].kind).value, key,
                            val.items[1].kind, val.items, 2)
      [] OTHER -> Returns(h, Ok(NoneType))

OptionVarDict_pop(h, key) == Returns(remove(h, key), Ok(query(h, key)))

Languages == {"", "mel", "python"}

OptionVarShelve_has_key(h, self, key, language) ==
    IF language \notin Languages
    THEN Raise("TypeError", "language keyword expects 'mel', or 'python'")
    ELSE Ok(CASE language = "" ->
                   OptionVarDict_has_key(h, key) \/ self._shelve[key] # None
              [] language = "mel" -> OptionVarDict_has_key(h, key)
              [] language = "python" -> self._shelve[key] # None)

OptionVarShelve__getitem__(h, self, key) ==
    IF OptionVarDict_has_key(h, key) THEN OptionVarDict__getitem__(h, key)
    ELSE IF self._shelve[key] # None THEN Ok(Val(self._shelve[key]))
    ELSE IF self._exceptions THEN Raise("KeyError", key)
    ELSE Ok(PyInt(0))

(* self._shelve.pop(key) where the shelve has the key *)
shelvePopped(self, key) ==
    IF self._shelve[key] # None THEN [self EXCEPT !._shelve[key] = None]
    ELSE self

(* the end of __setitem__ after self._optionVars.__setitem__(key, val),    *)
(* whose outcome is set: host is the store of the command, self the object *)
shelved(set, self, key, val) ==
    IF set.ret.exc = "TypeError"
    THEN [host |-> OptionVarDict_pop(set.self, key).self,
          self |-> [self EXCEPT !._shelve[key] = Some(val)],
          ret |-> Ok(NoneType)]
    ELSE [host |-> set.self, self |-> self, ret |-> set.ret]

OptionVarShelve__setitem__(h, self, key, val) ==
    shelved(OptionVarDict__setitem__(h, key, val), shelvePopped(self, key),
            key, val)

(* The interactive session that uses optionVar *)

Keys == {"test", "numbers"}

OptionVals ==
    { PyStr("dooder"), PyInt(1), PyBool(TRUE), PyFloat(3), NoneType, Dict,
      List(<< >>), List(<<PyInt(1)>>), List(<<PyInt(1), PyInt(24)>>),
      List(<<PyStr("a"), PyStr("b")>>), List(<<PyStr("a"), PyInt(10)>>),
      List(<<NoneType>>), Tuple(<<PyInt(1), PyInt(24)>>) }

ShelveInit ==
    /\ cls = "OptionVarShelve"
    /\ host \in { [optionVars |-> [k \in Keys |-> None], clearCreates |-> b] :
                    b \in BOOLEAN }
    /\ comp \in { [_exceptions |-> e, _shelve |-> [k \in Keys |-> None]] :
                    e \in BOOLEAN }
    /\ call = [op |-> "__init__"]
    /\ ret = Ok(NoneType)
    /\ nIndexed = 0

(* the state after a call of the object that came to done *)
shelveCalled(done) ==
    /\ host' = done.host
    /\ comp' = done.self
    /\ ret' = done.ret
    /\ UNCHANGED <<cls, nIndexed>>

(* optionVar[key] = val *)
ShelveSetItem(key, val) ==
    /\ call' = [op |-> "__setitem__", key |-> key, val |-> val]
    /\ shelveCalled(OptionVarShelve__setitem__(host, comp, key, val))

(* optionVar[key] *)
ShelveGetItem(key) ==
    /\ call' = [op |-> "__getitem__", key |-> key]
    /\ shelveCalled([host |-> host, self |-> comp,
                     ret |-> OptionVarShelve__getitem__(host, comp, key)])

(* optionVar.has_key(key, language) *)
ShelveHasKey(key, language) ==
    /\ call' = [op |-> "has_key", key |-> key, language |-> language]
    /\ shelveCalled([host |-> host, self |-> comp,
                     ret |-> OptionVarShelve_has_key(host, comp, key, language)])

ShelveNext ==
    \E key \in Keys :
       \/ \E val \in OptionVals : ShelveSetItem(key, val)
       \/ ShelveGetItem(key)
       \/ \E language \in Languages \cup {"MEL"} : ShelveHasKey(key, language)

ShelveSpec == ShelveInit /\ [][ShelveNext]_vars

----------------------------------------------------------------------------
(* SubdUV: the length of the one dimension is learned from the scene.      *)
(* host.answer is the selection string the scene gives for smm[0:MAX],     *)
(* host.trips the number of times the scene was asked.                     *)

_MAX_INDEX == 2147483647     \* 2 ** 31 - 1

(* _tempSel.clear(); _tempSel.add(name + '[0:%d]' % _MAX_INDEX);           *)
(* _tempSel.getSelectionStrings(0, selStrings): one round trip             *)
tempSelStrings(h) ==
    [host |-> [h EXCEPT !.trips = h.trips + 1],
     ret |-> IF h.answer = None
             THEN Raise("RuntimeError", [format |-> "%s:%s", args |-> <<0, _MAX_INDEX>>])
             ELSE Ok(<<Val(h.answer)>>)]

(* int(_maxIndexRe.search(selStrings[0]).group(1)) + 1: the pattern is     *)
(* \[0:([0-9]+)\]$, and a string it does not match gives no group          *)
maxIndexPlusOne(selStrings) ==
    IF selStrings[1].format = "%s:%s" /\ selStrings[1].args[1] = 0
    THEN Ok(selStrings[1].args[2] + 1)
    ELSE Raise("RuntimeError", "Couldn't determine max index")

(* mutant: the scene is asked once, the answer is kept *)
SubdUV_dimLength_kept(h, partialIndex) ==
    IF h.trips > 0
    THEN [host |-> h, ret |-> Bind(tempSelStrings(h).ret, maxIndexPlusOne)]
    ELSE [host |-> tempSelStrings(h).host,
          ret |-> Bind(tempSelStrings(h).ret, maxIndexPlusOne)]

(* SubdUV._dimLength: host is the scene as the call leaves it *)
SubdUV_dimLength(h, partialIndex) ==
    [host |-> tempSelStrings(h).host,
     ret |-> Bind(tempSelStrings(h).ret, maxIndexPlusOne)]

(* SubdUV._completeNameString: the name of the node's smm and '[:%d]' *)
SubdUV_completeNameString(h) ==
    [host |-> SubdUV_dimLength(h, None).host,
     ret |-> Bind(SubdUV_dimLength(h, None).ret,
                  LAMBDA dimLen :
                     Ok([plugAttr |-> "smm",
                         dims |-> <<[format |-> "[:%d]", args |-> <<dimLen>>]>>]))]

(* DiscreteComponent._dimRange *)
SubdUV_dimRange(h, partialIndex) ==
    [host |-> SubdUV_dimLength(h, partialIndex).host,
     ret |-> Bind(SubdUV_dimLength(h, partialIndex).ret,
                  LAMBDA dimLen : Ok(<<-dimLen, dimLen - 1>>))]

(* DimensionedComponent._validateGetItemIndice on a number or a slice *)
SubdUV_validateGetItemIndice(h, self, item) ==
    IF item.kind = "slice" /\ item.step # None
          /\ Val(item.step) # 0 /\ Val(item.step) < 0
    THEN [host |-> h,
          ret |-> Raise("IndexError",
                        "Components do not support slices with negative steps")]
    ELSE IF item.kind = "slice" /\ item.start = None /\ item.stop = None
    THEN [host |-> h, ret |-> Ok(None)]
    ELSE [host |-> SubdUV_dimRange(h, Val(self._partialIndex)).host,
          ret |-> Bind(SubdUV_dimRange(h, Val(self._partialIndex)).ret,
                       LAMBDA allowedRange :
                          IF minIndex(item) < allowedRange[1]
                                \/ maxIndex(item) > allowedRange[2]
                          THEN Raise("IndexError", "Indice out of range")
                          ELSE Ok(None))]

(* DimensionedComponent.__getitem__ on a SubdUV that can be indexed: the   *)
(* value is the index the new component is constructed on                  *)
SubdUV__getitem__(h, self, item) ==
    [host |-> SubdUV_validateGetItemIndice(h, self, item).host,
     ret |-> Bind(SubdUV_validateGetItemIndice(h, self, item).ret,
                  LAMBDA none : Ok(Append1(Val(self._partialIndex), item)))]

(* A session holding subd.smm *)

MaxTrips == 6        \* most round trips to the scene in a session

UVAnswers ==
    {None, Some([format |-> "%s", args |-> <<0>>])}
      \cup { Some([format |-> "%s:%s", args |-> <<0, k>>]) : k \in 1..MaxLen }

UVItems ==
    { Num(v) : v \in {-1, 0, MaxLen + 1} }
      \cup { WildcardSlice, HashableSlice(Some(0), None, None),
             HashableSlice(None, None, Some(-1)) }

UVInit ==
    /\ cls = "SubdUV"
    /\ host \in { [answer |-> a, trips |-> 0] : a \in UVAnswers }
    /\ comp = [_indices |-> None,
               _partialIndex |-> Some(ComponentIndex(<< >>, Some("smm")))]
    /\ call = [op |-> "__init__", before |-> 0]
    /\ ret = Ok(None)
    /\ nIndexed = 0

(* the state after a call that came to done; the component stays as made *)
uvCalled(done) ==
    /\ host' = done.host
    /\ ret' = done.ret
    /\ UNCHANGED <<cls, comp, nIndexed>>

(* comp._dimLength(comp._partialIndex) *)
UVDimLength ==
    /\ host.trips < MaxTrips
    /\ call' = [op |-> "_dimLength", before |-> host.trips]
    /\ uvCalled(SubdUV_dimLength(host, Val(comp._partialIndex)))

(* comp._completeNameString() *)
UVCompleteNameString ==
    /\ host.trips < MaxTrips
    /\ call' = [op |-> "_completeNameString", before |-> host.trips]
    /\ uvCalled(SubdUV_completeNameString(host))

(* comp[item] *)
UVGetItem(item) ==
    /\ host.trips < MaxTrips
    /\ call' = [op |-> "__getitem__", item |-> item, before |-> host.trips]
    /\ uvCalled(SubdUV__getitem__(host, comp, item))

UVNext ==
    \/ UVDimLength
    \/ UVCompleteNameString
    \/ \E item \in UVItems : UVGetItem(item)

UVSpec == UVInit /\ [][UVNext]_vars

----------------------------------------------------------------------------
(* NurbsSurfaceIsoparm._convertUVtoU.  The objects the method is handed    *)
(* are kept in a heap, a sequence of objects; a value is a reference to an *)
(* object of the heap, a number or a string.                               *)

Ref(id) == [ref |-> id]
Number(n) == [int |-> n]
String(s) == [str |-> s]

isRef(x) == "ref" \in DOMAIN x

(* isinstance(x, ComponentIndex), isinstance(x, dict) *)
isComponentIndex(H, x) == isRef(x) /\ H[x.ref].type = "ComponentIndex"
isDict(H, x) == isRef(x) /\ H[x.ref].type = "dict"

(* isinstance(x, (list, tuple)): a ComponentIndex is a tuple *)
isListOrTuple(H, x) ==
    isRef(x) /\ H[x.ref].type \in {"list", "tuple", "ComponentIndex"}

(* index[key] = v and del index[key] *)
setItem(H, x, key, v) ==
    [H EXCEPT ![x.ref].byLabel =
        [k \in DOMAIN H[x.ref].byLabel \cup {key} |->
            IF k = key THEN v ELSE H[x.ref].byLabel[k]]]

delItem(H, x, key) ==
    [H EXCEPT ![x.ref].byLabel =
        [k \in DOMAIN H[x.ref].byLabel \ {key} |-> H[x.ref].byLabel[k]]]

(* "First, make sure index['u'] is a list": a value that is no list is put *)
(* into a new list, a tuple is copied to one                               *)
uAsList(H, x) ==
    IF isComponentIndex(H, H[x.ref].byLabel["u"])
          \/ ~isListOrTuple(H, H[x.ref].byLabel["u"])
    THEN setItem(Append(H, [type |-> "list", items |-> <<H[x.ref].byLabel["u"]>>]),
                 x, "u", Ref(Len(H) + 1))
    ELSE IF H[H[x.ref].byLabel["u"].ref].type = "tuple"
    THEN setItem(Append(H, [type |-> "list",
                            items |-> H[H[x.ref].byLabel["u"].ref].items]),
                 x, "u", Ref(Len(H) + 1))
    ELSE H

(* mutant: the contents of 'uv' are put in front of those of 'u' *)
addOn_inFront(H, x, oldUvIndex) ==
    IF isComponentIndex(H, oldUvIndex) \/ ~isListOrTuple(H, oldUvIndex)
    THEN [H EXCEPT ![H[x.ref].byLabel["u"].ref].items = <<oldUvIndex>> \o @]
    ELSE [H EXCEPT ![H[x.ref].byLabel["u"].ref].items = H[oldUvIndex.ref].items \o @]

(* "then add on 'uv' contents": index['u'].append or index['u'].extend *)
addOn(H, x, oldUvIndex) ==
    IF isComponentIndex(H, oldUvIndex) \/ ~isListOrTuple(H, oldUvIndex)
    THEN [H EXCEPT ![H[x.ref].byLabel["u"].ref].items = Append(@, oldUvIndex)]
    ELSE [H EXCEPT ![H[x.ref].byLabel["u"].ref].items = @ \o H[oldUvIndex.ref].items]

(* the dict after index['uv'] was converted to old.value in old.heap *)
uvMerged(old, x) ==
    [heap |-> delItem(IF "u" \in DOMAIN old.heap[x.ref].byLabel
                      THEN addOn(uAsList(old.heap, x), x, old.value)
                      ELSE setItem(old.heap, x, "u", old.value),
                      x, "uv"),
     value |-> x]

RECURSIVE convertUVtoU(_, _)

(* [cls._convertUVtoU(x) for x in index]: rest is still to convert, done   *)
(* the list made so far                                                    *)
RECURSIVE converted(_, _, _)
convertedNext(r, rest, done) == converted(r.heap, rest, Append(done, r.value))

converted(H, rest, done) ==
    IF rest = << >>
    THEN [heap |-> Append(H, [type |-> "list", items |-> done]),
          value |-> Ref(Len(H) + 1)]
    ELSE convertedNext(convertUVtoU(H, Head(rest)), Tail(rest), done)

convertUVtoU(H, index) ==
    CASE isDict(H, index) ->
           IF "uv" \in DOMAIN H[index.ref].byLabel
           THEN uvMerged(convertUVtoU(H, H[index.ref].byLabel["uv"]), index)
           ELSE [heap |-> H, value |-> index]
      [] isComponentIndex(H, index) ->
           IF H[index.ref].label = Some("uv")
           THEN [heap |-> [H EXCEPT ![index.ref].label = Some("u")], value |-> index]
           ELSE [heap |-> H, value |-> index]
      [] isListOrTuple(H, index) /\ ~isComponentIndex(H, index) ->
           converted(H, H[index.ref].items, << >>)
      [] "str" \in DOMAIN index ->
           [heap |-> H, value |-> IF index.str = "uv" THEN String("u") ELSE index]
      [] OTHER -> [heap |-> H, value |-> index]

(* The indices a caller hands over, written as nested values: each object  *)
(* of one is put on the heap                                               *)

RECURSIVE onHeap(_, _)
RECURSIVE itemsOnHeap(_, _, _)
itemsOnHeapNext(r, rest, done) == itemsOnHeap(r.heap, rest, Append(done, r.value))

itemsOnHeap(H, rest, done) ==
    IF rest = << >> THEN [heap |-> H, value |-> done]
    ELSE itemsOnHeapNext(onHeap(H, Head(rest)), Tail(rest), done)

newObject(r, type) ==
    [heap |-> Append(r.heap, [type |-> type, items |-> r.value]),
     value |-> Ref(Len(r.heap) + 1)]

newDict(r) ==
    [heap |-> Append(r.heap, [type |-> "dict", byLabel |-> r.value]),
     value |-> Ref(Len(r.heap) + 1)]

RECURSIVE keysOnHeap(_, _, _, _)
keysOnHeapNext(r, index, key, keys, done) ==
    keysOnHeap(r.heap, index, keys \ {key},
               [k \in DOMAIN done \cup {key} |->
                   IF k = key THEN r.value ELSE done[k]])

keysOnHeap(H, index, keys, done) ==
    IF keys = {} THEN [heap |-> H, value |-> done]
    ELSE keysOnHeapNext(onHeap(H, index[CHOOSE k \in keys : TRUE]), index,
                        CHOOSE k \in keys : TRUE, keys, done)

onHeap(H, v) ==
    CASE v.type \in {"int", "str"} -> [heap |-> H, value |-> v.value]
      [] v.type = "ComponentIndex" ->
           [heap |-> Append(H, v), value |-> Ref(Len(H) + 1)]
      [] v.type \in {"list", "tuple"} ->
           newObject(itemsOnHeap(H, v.items, << >>), v.type)
      [] v.type = "dict" ->
           newDict(keysOnHeap(H, v.byLabel, DOMAIN v.byLabel, << >>))

(* what the heap holds behind a value, as a nested value *)
RECURSIVE deref(_, _)
deref(H, x) ==
    CASE "int" \in DOMAIN x -> [type |-> "int", value |-> x]
      [] "str" \in DOMAIN x -> [type |-> "str", value |-> x]
      [] isComponentIndex(H, x) -> H[x.ref]
      [] isDict(H, x) ->
           [type |-> "dict",
            byLabel |-> [k \in DOMAIN H[x.ref].byLabel |->
                            deref(H, H[x.ref].byLabel[k])]]
      [] OTHER ->
           [type |-> H[x.ref].type,
            items |-> [i \in 1..Len(H[x.ref].items) |-> deref(H, H[x.ref].items[i])]]

(* A caller that converts an index and converts the result again *)

IsoparmLabels == {"u", "v", "uv"}

IntValue(n) == [type |-> "int", value |-> Number(n)]
StrValue(s) == [type |-> "str", value |-> String(s)]
IndexValue(entries, label) ==
    [type |-> "ComponentIndex", entries |-> entries, label |-> label]
ListValue(items) == [type |-> "list", items |-> items]
TupleValue(items) == [type |-> "tuple", items |-> items]
DictValue(byLabel) == [type |-> "dict", byLabel |-> byLabel]

(* the first entry of the indices held under a label tells the label *)
labelNumber(k) == CASE k = "u" -> 1 [] k = "v" -> 2 [] k = "uv" -> 3

(* the values a dict may hold under label k *)
LabelledValues(k) ==
    { IntValue(labelNumber(k)),
      IndexValue(<<labelNumber(k), 4>>, Some(k)),
      IndexValue(<<labelNumber(k)>>, None),
      ListValue(<<IndexValue(<<labelNumber(k), 4>>, Some(k)),
                  IndexValue(<<labelNumber(k), 5>>, Some(k))>>),
      ListValue(<<IndexValue(<<labelNumber(k)>>, Some(k))>>),
      TupleValue(<<IntValue(labelNumber(k)), IntValue(labelNumber(k) + 3)>>) }

DictValues ==
    UNION { { DictValue(f) : f \in { g \in [S -> UNION { LabelledValues(k) : k \in S }] :
                                        \A k \in S : g[k] \in LabelledValues(k) } } :
            S \in (SUBSET IsoparmLabels) \ {{}} }

ConvertValues ==
    DictValues
      \cup UNION { LabelledValues(k) : k \in IsoparmLabels }
      \cup { StrValue(k) : k \in IsoparmLabels }
      \cup { TupleValue(<<StrValue("u"), StrValue("v"), StrValue("uv")>>),
             ListValue(<<IndexValue(<<3, 4>>, Some("uv")), IndexValue(<<1>>, Some("u"))>>) }

ConvertInit ==
    /\ cls = "NurbsSurfaceIsoparm"
    /\ host = None
    /\ \E v \in ConvertValues :
          /\ comp = onHeap(<< >>, v).heap
          /\ call = [op |-> "__init__", index |-> onHeap(<< >>, v).value]
    /\ ret = Ok(None)
    /\ nIndexed = 0

(* the state after a conversion that came to done: before is the heap the  *)
(* call found                                                              *)
convertCalled(done, index, again) ==
    /\ call' = [op |-> "_convertUVtoU", index |-> index, before |-> comp,
                again |-> again]
    /\ comp' = done.heap
    /\ ret' = Ok(done.value)
    /\ UNCHANGED <<cls, host, nIndexed>>

(* index = cls._convertUVtoU(index), as __init__ does with the index it is *)
(* given                                                                   *)
Convert ==
    /\ call.op = "__init__"
    /\ convertCalled(convertUVtoU(comp, call.index), call.index, FALSE)

(* the result is converted once more *)
ConvertAgain ==
    /\ call.op = "_convertUVtoU"
    /\ ~call.again
    /\ convertCalled(convertUVtoU(comp, ret.value), ret.value, TRUE)

ConvertNext == Convert \/ ConvertAgain

ConvertSpec == ConvertInit /\ [][ConvertNext]_vars


----------------------------------------------------------------------------
(* Plugin registration: _pluginLoaded and _pluginUnloaded of               *)
(* pymel/core/__init__.py.  host is the application: whether it is reading *)
(* or opening a file, the plugins it has loaded, the callbacks added for   *)
(* its SceneOpened event (the id of a callback is its place in the         *)
(* sequence) and those of them it has still to call for the event under    *)
(* way.  comp is the state of pymel: _pluginData, the command functions of *)
(* the module and the node classes of nodetypes.                           *)

Plugins == {"pluginA", "pluginB", "pluginC"}

(* pluginInfo(pluginName, query=1, command=1) and (.., dependNode=1) *)
commandsOf(pluginName) ==
    CASE pluginName = "pluginA" -> <<"cmdA">>
      [] pluginName = "pluginB" -> << >>
      [] OTHER -> <<"cmdC">>

mayaTypesOf(pluginName) ==
    CASE pluginName = "pluginA" -> <<"nodeA">>
      [] pluginName = "pluginB" -> <<"nodeB">>
      [] OTHER -> << >>

toSet(seq) == { seq[i] : i \in 1..Len(seq) }

(* what a step of a handler leaves: the state of pymel, the application,   *)
(* what was returned or raised and the node classes added                  *)
Left(M, H, r, added) == [comp |-> M, host |-> H, ret |-> r, added |-> added]

(* "_pluginData[pluginName] = data" and "_pluginData.pop(pluginName)" *)
withData(M, pluginName, data) ==
    [M EXCEPT !._pluginData =
        [p \in DOMAIN M._pluginData \cup {pluginName} |->
            IF p = pluginName THEN data ELSE M._pluginData[p]]]

withoutData(M, pluginName) ==
    [M EXCEPT !._pluginData =
        [p \in DOMAIN M._pluginData \ {pluginName} |-> M._pluginData[p]]]

(* MEventMessage.removeCallback(id): removing a callback that is not there *)
(* fails or not as the application decides (removes)                       *)
removeCallback(H, id, removes) ==
    IF H.callbacks[id].registered
    THEN [host |-> [H EXCEPT !.callbacks[id].registered = FALSE,
                             !.pending = @ \ {id}],
          ret |-> Ok(None)]
    ELSE [host |-> H,
          ret |-> IF removes THEN Ok(None)
                  ELSE Raise("RuntimeError", "(kFailure): Unexpected Internal Failure")]

(* the try block of addPluginPyNodes: a KeyError is logged, anything else  *)
(* goes on to the caller                                                   *)
callbackRemoved(M, H, pluginName, removes) ==
    IF pluginName \notin DOMAIN M._pluginData
    THEN [host |-> H, ret |-> Ok(None)]
    ELSE IF M._pluginData[pluginName].callbackId = None
    THEN [host |-> H, ret |-> Ok(None)]
    ELSE removeCallback(H, Val(M._pluginData[pluginName].callbackId), removes)

(* the node classes addPyNode adds for the types of the plugin, if         *)
(* getInheritance returns their inheritance (inherits)                     *)
pyNodesOf(pluginName, inherits) ==
    IF inherits THEN toSet(mayaTypesOf(pluginName)) ELSE {}

(* the rest of addPluginPyNodes: "_pluginData[pluginName]['dependNodes'] = *)
(* mayaTypes" raises KeyError if the plugin is not recorded                *)
nodesAdded(M, H, pluginName, inherits) ==
    IF pluginName \notin DOMAIN M._pluginData
    THEN Left(M, H, Raise("KeyError", pluginName), {})
    ELSE Left([withData(M, pluginName,
                        [M._pluginData[pluginName] EXCEPT
                            !.dependNodes = mayaTypesOf(pluginName)])
                 EXCEPT !.nodetypes = @ \cup pyNodesOf(pluginName, inherits)],
              H, Ok(None), pyNodesOf(pluginName, inherits))

afterRemoval(M, removed, pluginName, inherits) ==
    IF IsOk(removed.ret)
    THEN nodesAdded(M, removed.host, pluginName, inherits)
    ELSE Left(M, removed.host, removed.ret, {})

(* the closure addPluginPyNodes of _pluginLoaded(pluginName) *)
addPluginPyNodes(M, H, pluginName, removes, inherits) ==
    afterRemoval(M, callbackRemoved(M, H, pluginName, removes), pluginName, inherits)

(* the commands of the plugin: pluginInfo may fail (queryFails), and then  *)
(* no command is added; functionFactory may return no function (funcMade)  *)
queriedCommands(pluginName, queryFails) ==
    IF queryFails THEN << >> ELSE commandsOf(pluginName)

commandsAdded(M, pluginName, queryFails, funcMade) ==
    [withData(M, pluginName,
              [callbackId |-> None,
               commands |-> queriedCommands(pluginName, queryFails),
               dependNodes |-> << >>])
       EXCEPT !.module = IF funcMade
                         THEN @ \cup toSet(queriedCommands(pluginName, queryFails))
                         ELSE @]

(* MEventMessage.addEventCallback('SceneOpened', addPluginPyNodes) *)
addEventCallback(H, pluginName) ==
    [H EXCEPT !.callbacks = Append(@, [plugin |-> pluginName, registered |-> TRUE,
                                       fired |-> 0])]

(* the branch on MFileIO.isReadingFile() or isOpeningFile(): M is pymel    *)
(* after the commands were added                                           *)
nodesDeferredOrAdded(M, H, pluginName, removes, inherits) ==
    IF mayaTypesOf(pluginName) = << >>
    THEN Left(M, H, Ok(None), {})
    ELSE IF H.reading
    THEN Left(withData(M, pluginName,
                       [M._pluginData[pluginName] EXCEPT
                           !.callbackId = Some(Len(H.callbacks) + 1)]),
              addEventCallback(H, pluginName), Ok(None), {})
    ELSE addPluginPyNodes(M, H, pluginName, removes, inherits)

_pluginLoaded(M, H, pluginName, queryFails, funcMade, removes, inherits) ==
    IF pluginName = ""
    THEN Left(M, H, Ok(None), {})
    ELSE nodesDeferredOrAdded(commandsAdded(M, pluginName, queryFails, funcMade),
                              H, pluginName, removes, inherits)

_pluginUnloaded(M, H, pluginName) ==
    IF pluginName \notin DOMAIN M._pluginData
    THEN Left(M, H, Ok(None), {})
    ELSE Left([withoutData(M, pluginName) EXCEPT
                  !.module = @ \ toSet(M._pluginData[pluginName].commands),
                  !.nodetypes = @ \ toSet(M._pluginData[pluginName].dependNodes)],
              H, Ok(None), {})

(* A session of the application: files are read and opened, plugins are    *)
(* loaded and unloaded, and the callbacks of pymel are called              *)

MaxEvents == 5       \* most events of the application in a session

PluginInit ==
    /\ cls = "pymel.core"
    /\ host = [reading |-> FALSE, loaded |-> {}, callbacks |-> << >>, pending |-> {}]
    /\ comp = [_pluginData |-> << >>, module |-> {}, nodetypes |-> {}]
    /\ call = [op |-> "__init__"]
    /\ ret = Ok(None)
    /\ nIndexed = 0

(* no callback is being called and the session goes on *)
idle == host.pending = {} /\ nIndexed < MaxEvents

handled(done) ==
    /\ comp' = done.comp
    /\ ret' = done.ret
    /\ nIndexed' = nIndexed + 1
    /\ UNCHANGED cls

(* the application starts to read or open a file *)
BeginRead ==
    /\ idle
    /\ ~host.reading
    /\ call' = [op |-> "beginRead"]
    /\ host' = [host EXCEPT !.reading = TRUE]
    /\ UNCHANGED <<cls, comp, ret>>
    /\ nIndexed' = nIndexed + 1

(* the application loads a plugin and calls _pluginLoaded *)
LoadPlugin(pluginName, queryFails, funcMade, removes, inherits) ==
    /\ idle
    /\ pluginName \notin host.loaded
    /\ call' = [op |-> "_pluginLoaded", plugin |-> pluginName,
                reading |-> host.reading,
                added |-> _pluginLoaded(comp, host, pluginName, queryFails,
                                        funcMade, removes, inherits).added]
    /\ host' = [_pluginLoaded(comp, host, pluginName, queryFails,
                              funcMade, removes, inherits).host
                  EXCEPT !.loaded = @ \cup {pluginName}]
    /\ handled(_pluginLoaded(comp, host, pluginName, queryFails,
                             funcMade, removes, inherits))

(* the application unloads a plugin and calls _pluginUnloaded *)
UnloadPlugin(pluginName) ==
    /\ idle
    /\ pluginName \in host.loaded
    /\ call' = [op |-> "_pluginUnloaded", plugin |-> pluginName]
    /\ host' = [host EXCEPT !.loaded = @ \ {pluginName}]
    /\ handled(_pluginUnloaded(comp, host, pluginName))

(* the SceneOpened event: the file is read, and the callbacks registered   *)
(* for the event are to be called                                          *)
SceneOpened ==
    /\ idle
    /\ call' = [op |-> "SceneOpened"]
    /\ host' = [host EXCEPT
                   !.reading = FALSE,
                   !.pending = { id \in 1..Len(host.callbacks) :
                                   host.callbacks[id].registered }]
    /\ UNCHANGED <<cls, comp, ret>>
    /\ nIndexed' = nIndexed + 1

(* the callbacks still to call after the one with this id was called: one  *)
(* that was removed meanwhile is not called                                *)
afterCall(H, id) ==
    [H EXCEPT !.pending = @ \ {id}, !.callbacks[id].fired = @ + 1]

(* the application calls the next callback of the event *)
FireCallback(id, removes, inherits) ==
    /\ id \in host.pending
    /\ \A other \in host.pending : id <= other
    /\ call' = [op |-> "addPluginPyNodes", id |-> id,
                plugin |-> host.callbacks[id].plugin,
                added |-> addPluginPyNodes(comp, host, host.callbacks[id].plugin,
                                           removes, inherits).added]
    /\ host' = afterCall(addPluginPyNodes(comp, host, host.callbacks[id].plugin,
                                        removes, inherits).host, id)
    /\ comp' = addPluginPyNodes(comp, host, host.callbacks[id].plugin,
                                removes, inherits).comp
    /\ ret' = addPluginPyNodes(comp, host, host.callbacks[id].plugin,
                               removes, inherits).ret
    /\ UNCHANGED <<cls, nIndexed>>

PluginNext ==
    \/ BeginRead
    \/ \E pluginName \in Plugins \cup {""} :
          \E queryFails, funcMade, removes, inherits \in BOOLEAN :
             LoadPlugin(pluginName, queryFails, funcMade, removes, inherits)
    \/ \E pluginName \in Plugins : UnloadPlugin(pluginName)
    \/ SceneOpened
    \/ \E id \in 1..MaxEvents : \E removes, inherits \in BOOLEAN :
          FireCallback(id, removes, inherits)

PluginSpec == PluginInit /\ [][PluginNext]_vars

----------------------------------------------------------------------------
(* Properties of chained indexing, checked under Spec *)

isGetItem == call.op = "__getitem__"

(* the receiver of the last __getitem__ could still be indexed *)
receiverIndexable == isGetItem /\ currentDimension(cls, call.self) # None

receiverPartial == Val(call.self._partialIndex)

(* C1: on a discrete domain of dimensionality D, a component that started  *)
(* un-indexed and went through k successful __getitem__ calls reports      *)
(* currentDimension() == k while k < D, and None once k == D; from then on *)
(* every __getitem__ raises the IndexError of a fully specified component, *)
(* so no more than D calls ever succeed.                                   *)
C1_ChainedIndexing ==
    cls \in DiscreteClasses =>
        /\ nIndexed <= dimensions(cls)
        /\ nIndexed < dimensions(cls) =>
               currentDimension(cls, comp) = Some(nIndexed)
        /\ nIndexed = dimensions(cls) => currentDimension(cls, comp) = None
        /\ (isGetItem /\ currentDimension(cls, call.self) = None) =>
               /\ ret.exc = "IndexError"
               /\ ret.msg = "Indexing only allowed on an incompletely specified component"

C1_Witness ==
    /\ cls \in DiscreteClasses
    /\ dimensions(cls) = 2
    /\ nIndexed = 2
    /\ isGetItem
    /\ currentDimension(cls, call.self) = None
    /\ ~IsOk(ret)

hasNegativeStep(item) ==
    item.kind = "slice" /\ item.step # None /\ Val(item.step) < 0

(* C9: __getitem__ with a slice whose step is negative raises IndexError,  *)
(* whatever the class of the component, the dimension indexed and the      *)
(* start and stop of the slice.                                            *)
C9_NegativeStepRejected ==
    (isGetItem /\ hasNegativeStep(call.item)) =>
        (~IsOk(ret) /\ ret.exc = "IndexError")

C9_Witness ==
    /\ receiverIndexable
    /\ hasNegativeStep(call.item)
    /\ call.item.start = Some(0)
    /\ call.item.stop = Some(1)
    /\ ret.exc = "IndexError"
    /\ ret.msg = "Components do not support slices with negative steps"

(* the second dimension of a vertex-face component, whose entries are ids  *)
(* of the faces around the chosen vertex                                   *)
atVertexFaceFaces ==
    cls = "MeshVertexFace" /\ Len(receiverPartial.entries) = 1

(* the scene answered every query the call made of it: the call returned   *)
(* or raised an exception of the indexing code itself                      *)
sceneAnswered == ret.exc \in {"none", "IndexError", "ValueError"}

sameLeaves(negIndex, dimLen) ==
    _flattenIndex(cls, host, Append1(receiverPartial, Num(negIndex)), TRUE)
      = _flattenIndex(cls, host, Append1(receiverPartial, Num(dimLen + negIndex)), TRUE)

(* what C3 claims of one __getitem__ call with a negative number *)
negativeTranslated ==
    LET dimLen == _dimLength(cls, host, receiverPartial)
        i == call.item.v
    IN  IsOk(dimLen) =>
          /\ (-dimLen.value <= i) => (IsOk(ret) /\ sameLeaves(i, dimLen.value))
          /\ (i < -dimLen.value) => (~IsOk(ret) /\ ret.exc = "IndexError")

negativeScalarCall ==
    /\ receiverIndexable
    /\ cls \in DiscreteClasses
    /\ call.item.kind = "num"
    /\ call.item.v < 0

(* C3 as stated: on every discrete domain, at every dimension, a negative  *)
(* number i with -L <= i <= -1 is accepted by __getitem__ and flattens to  *)
(* the leaves of L+i, and i < -L raises IndexError, L being the length at  *)
(* the receiver's partial index.                                           *)
C3_Original == (negativeScalarCall /\ sceneAnswered) => negativeTranslated

(* C3 amended: the same, on every discrete domain except at the second     *)
(* dimension of the vertex-face domain; there __getitem__ accepts only the *)
(* ids of the faces around the chosen vertex, so no negative number.       *)
C3_NegativeTranslation ==
    negativeScalarCall =>
        IF atVertexFaceFaces THEN ~IsOk(ret) ELSE negativeTranslated

C3_Witness ==
    /\ negativeScalarCall
    /\ ~atVertexFaceFaces
    /\ Len(receiverPartial.entries) = 1
    /\ receiverPartial.entries[1].kind = "slice"
    /\ IsOk(ret)
    /\ LET leaves == _flattenIndex(cls, host, Val(comp._indices), TRUE)
       IN  /\ IsOk(leaves)
           /\ Len(leaves.value) > 1
           /\ \A k \in 1..Len(leaves.value) :
                leaves.value[k].entries[2].v =
                    _dimLength(cls, host, receiverPartial).value + call.item.v

inRange(v, range) == range[1] <= v /\ v <= range[2]

(* what C10 claims of one __getitem__ call with a number or a slice *)
boundsChecked ==
    LET allowedRange == _dimRange(cls, host, receiverPartial)
        item == call.item
        inside == IF item.kind = "num"
                  THEN inRange(item.v, allowedRange.value)
                  ELSE /\ item.start # None =>
                              inRange(Val(item.start), allowedRange.value)
                       /\ item.stop # None =>
                              inRange(Val(item.stop), allowedRange.value)
    IN  IsOk(allowedRange) =>
          /\ IsOk(ret) => inside
          /\ ~inside => (~IsOk(ret) /\ ret.exc = "IndexError")

boundedCall ==
    /\ receiverIndexable
    /\ call.item.kind \in {"num", "slice"}

(* C10 as stated: on every domain, with (min, max) the range at the        *)
(* receiver's partial index, __getitem__ returns for a number only if it   *)
(* lies in [min, max] and for a slice only if each given endpoint does;    *)
(* otherwise it raises IndexError.                                         *)
C10_Original == (boundedCall /\ sceneAnswered) => boundsChecked

(* C10 amended: the same, on every domain except at the second dimension   *)
(* of the vertex-face domain; there a number is accepted only if it is the *)
(* id of a face around the chosen vertex, whatever (-length, length-1) is, *)
(* and every slice is rejected.                                            *)
C10_BoundsCheck ==
    boundedCall =>
        IF atVertexFaceFaces
        THEN IsOk(ret) =>
               LET faces == getConnectedFaces(host, receiverPartial.entries[1])
               IN  /\ call.item.kind = "num"
                   /\ IsOk(faces)
                   /\ \E k \in 1..Len(faces.value) : faces.value[k] = call.item.v
        ELSE boundsChecked

C10_Witness ==
    /\ boundedCall
    /\ ~atVertexFaceFaces
    /\ call.item.kind = "slice"
    /\ call.item.start # None
    /\ call.item.stop # None
    /\ IsOk(_dimRange(cls, host, receiverPartial))
    /\ inRange(Val(call.item.stop), _dimRange(cls, host, receiverPartial).value)
    /\ ~inRange(Val(call.item.start), _dimRange(cls, host, receiverPartial).value)
    /\ ret.exc = "IndexError"
    /\ ret.msg = "Indice out of range"

----------------------------------------------------------------------------
(* Properties of slice expansion, checked under SliceSpec *)

isSliceCall == call.op = "_sliceToIndices"

(* the 64-bit single-indexed subdivision components, whose length is a     *)
(* constant and whose slices are kept as slices                            *)
legacyDomain == cls = "SubdVertex"

(* the second dimension of a vertex-face component *)
atFacesOfVertex ==
    cls = "MeshVertexFace" /\ Len(call.partialIndex.entries) = 1

(* the slice of the call has 0 <= start, 0 <= stop < L and step >= 1, each *)
(* of them possibly left out, L being the length at the prefix of the call *)
inclusiveCall ==
    /\ isSliceCall
    /\ cls \in DiscreteClasses
    /\ IsOk(_dimLength(cls, host, call.partialIndex))
    /\ call.sliceObj.start # None => Val(call.sliceObj.start) >= 0
    /\ call.sliceObj.stop # None =>
          /\ Val(call.sliceObj.stop) >= 0
          /\ Val(call.sliceObj.stop) < _dimLength(cls, host, call.partialIndex).value
    /\ call.sliceObj.step # None => Val(call.sliceObj.step) >= 1

(* the call returned start, start+step, ... up to stop (up to L-1 without  *)
(* a stop), ascending, each appended to the prefix                         *)
inclusiveExpansion ==
    LET start == IF call.sliceObj.start = None THEN 0 ELSE Val(call.sliceObj.start)
        step == IF call.sliceObj.step = None THEN 1 ELSE Val(call.sliceObj.step)
        last == IF call.sliceObj.stop = None
                THEN _dimLength(cls, host, call.partialIndex).value - 1
                ELSE Val(call.sliceObj.stop)
        n == IF start > last THEN 0 ELSE ((last - start) \div step) + 1
    IN  /\ IsOk(ret)
        /\ Len(ret.value) = n
        /\ \A k \in 1..Len(ret.value) :
              ret.value[k] = Append1(call.partialIndex, Num(start + (k - 1) * step))

(* C2 as stated: on every discrete domain, at every prefix P with          *)
(* length(P) = L, a slice with 0 <= start, 0 <= stop < L and step >= 1     *)
(* expands to exactly start, start+step, ... <= stop, ascending, each      *)
(* appended to P; without a stop, up to L-1.                               *)
C2_Original == inclusiveCall => inclusiveExpansion

(* C2 amended: the same, on every discrete domain except the 64-bit        *)
(* subdivision domains, which keep the slice as one unexpanded index, and  *)
(* the second dimension of the vertex-face domain, which expands only a    *)
(* slice without stop and step, to the ids of the faces around the vertex. *)
C2_InclusiveStop ==
    inclusiveCall =>
        CASE legacyDomain ->
               IsOk(ret) =>
                   ret.value = << Append1(call.partialIndex,
                                          HashableSlice(call.sliceObj.start,
                                                        call.sliceObj.stop, None)) >>
          [] atFacesOfVertex ->
               IsOk(ret) =>
                   /\ call.sliceObj.stop = None
                   /\ call.sliceObj.step = None
                   /\ ret.value = appendEach(call.partialIndex,
                          getConnectedFaces(host, call.partialIndex.entries[1]).value)
          [] OTHER -> inclusiveExpansion

C2_Witness ==
    /\ inclusiveCall
    /\ cls = "MeshVertex"
    /\ host.numVertices = 10
    /\ call.sliceObj = HashableSlice(Some(2), Some(5), Some(1))
    /\ IsOk(ret)
    /\ [k \in 1..Len(ret.value) |-> ret.value[k].entries[1].v] = <<2, 3, 4, 5>>

isLengthCall == call.op = "_dimLength" /\ cls \in DiscreteClasses

(* the expansion of the full wildcard slice at the prefix of the call *)
wildcardExpansion == _sliceToIndices(cls, host, WildcardSlice, call.partialIndex)

lengthIsWildcardCount ==
    /\ IsOk(ret)
    /\ IsOk(wildcardExpansion)
    /\ ret.value = Len(wildcardExpansion.value)
    /\ \A k \in 1..Len(wildcardExpansion.value) :
          wildcardExpansion.value[k].entries[Len(call.partialIndex.entries) + 1].kind
              = "num"

(* C4 as stated: on every discrete domain, the vertex-face and the 64-bit  *)
(* subdivision domains included, length(P) is the number of concrete       *)
(* indices the full wildcard slice expands to at prefix P.                 *)
C4_Original == isLengthCall => lengthIsWildcardCount

(* C4 amended: the same on every discrete domain but the 64-bit            *)
(* subdivision domains; there length(P) is the constant 2**32 and the      *)
(* wildcard expands to one index, P with the wildcard slice appended.      *)
C4_LengthIsWildcardCount ==
    isLengthCall =>
        IF legacyDomain
        THEN /\ ret = Ok(max32)
             /\ wildcardExpansion = Ok(<< Append1(call.partialIndex, WildcardSlice) >>)
        ELSE lengthIsWildcardCount

C4_Witness ==
    /\ isLengthCall
    /\ cls = "MeshVertexFace"
    /\ Len(call.partialIndex.entries) = 1
    /\ ret = Ok(2)
    /\ IsOk(wildcardExpansion)
    /\ Len(wildcardExpansion.value) = 2

(* C8: on a continuous domain, expanding a slice with a step raises        *)
(* MayaComponentError; expanding a slice without step returns exactly one  *)
(* index, the prefix with that slice appended unexpanded.                  *)
C8_ContinuousStep ==
    (isSliceCall /\ cls \in ContinuousClasses) =>
        IF call.sliceObj.step # None
        THEN ~IsOk(ret) /\ ret.exc = "MayaComponentError"
        ELSE /\ IsOk(ret)
             /\ Len(ret.value) = 1
             /\ ret.value[1].entries = Append(call.partialIndex.entries,
                                              call.sliceObj)
             /\ ret.value[1].label = call.partialIndex.label

C8_Witness ==
    /\ isSliceCall
    /\ cls \in ContinuousClasses
    /\ call.sliceObj = HashableSlice(Some(0), Some(1), Some(2))
    /\ ret.exc = "MayaComponentError"

----------------------------------------------------------------------------
(* Properties of ComponentIndex, checked under IndexSpec *)

(* C6: a + b raises ValueError when both labels are given and differ;      *)
(* otherwise the sum has the entries of a followed by those of b and the   *)
(* one label given, or none when neither operand has one.                  *)
C6_ConcatLabel ==
    call.op = "__add__" =>
        IF /\ comp[1].label # None
           /\ comp[2].label # None
           /\ comp[1].label # comp[2].label
        THEN ~IsOk(ret) /\ ret.exc = "ValueError"
        ELSE /\ IsOk(ret)
             /\ ret.value.entries = comp[1].entries \o comp[2].entries
             /\ ret.value.label = IF comp[1].label # None
                                  THEN comp[1].label
                                  ELSE comp[2].label

C6_Witness ==
    /\ call.op = "__add__"
    /\ comp[1] = ComponentIndex(<<Num(3)>>, Some("u"))
    /\ comp[2] = ComponentIndex(<<Num(4)>>, None)
    /\ ret = Ok(ComponentIndex(<<Num(3), Num(4)>>, Some("u")))

(* C7: two indices are equal exactly when they have the same entries in    *)
(* the same order and the same label, and a set collecting two indices     *)
(* that differ, be it in the label alone, holds both.                      *)
C7_EqualityWithLabel ==
    /\ call.op = "__eq__" =>
          (ret.value <=> (/\ comp[1].entries = comp[2].entries
                          /\ comp[1].label = comp[2].label))
    /\ call.op = "set" =>
          (Len(ret.value) = IF comp[1] = comp[2] THEN 1 ELSE 2)

----------------------------------------------------------------------------
(* Properties of the codec, checked under CodecSpec *)

(* the indices of the component of the session *)
heldIndices ==
    { Val(comp._indices).entries[1].items[i].v :
        i \in 1..Len(Val(comp._indices).entries[1].items) }

----------------------------------------------------------------------------
(* Properties of index flattening, checked under FlattenSpec *)

isFlattenCall == call.op = "_flattenIndex"

(* the leaves returned, each as the tuple of its numbers *)
leafNumbers ==
    [k \in 1..Len(ret.value) |->
        [d \in 1..Len(ret.value[k].entries) |-> ret.value[k].entries[d].v]]

(* the index (slice(0,2), slice(0,1)) flattened on a surface's control     *)
(* vertices, the two-dimensional discrete domain that expands every slice  *)
exampleFlattened ==
    /\ isFlattenCall
    /\ cls = "NurbsSurfaceCV"
    /\ call.index.entries = << HashableSlice(Some(0), Some(2), None),
                               HashableSlice(Some(0), Some(1), None) >>

(* C11 as stated: the flattening gives exactly [(0,0),(1,0),(2,0)]. *)
C11_Original ==
    exampleFlattened =>
        (IsOk(ret) /\ leafNumbers = << <<0, 0>>, <<1, 0>>, <<2, 0>> >>)

(* C11 amended: both slices include their stop, so the flattening gives    *)
(* exactly [(0,0),(0,1),(1,0),(1,1),(2,0),(2,1)], in that order, whatever  *)
(* the lengths of the two dimensions.                                      *)
C11_FlattenExample ==
    exampleFlattened =>
        /\ IsOk(ret)
        /\ leafNumbers = << <<0, 0>>, <<0, 1>>, <<1, 0>>, <<1, 1>>, <<2, 0>>, <<2, 1>> >>

C11_Witness ==
    /\ exampleFlattened
    /\ host.numCVsInU = MaxCVs
    /\ host.numCVsInV = MaxCVs
    /\ IsOk(ret)
    /\ Len(ret.value) = 6

(* a comes before b in lexicographic order; both have the same length *)
lexLess(a, b) ==
    \E d \in 1..Len(a) :
        /\ a[d] < b[d]
        /\ \A e \in 1..(d - 1) : a[e] = b[e]

(* an index of numbers and slices, flattened on a domain that expands its  *)
(* slices to numbers; the scene lists the faces around a vertex by         *)
(* ascending id                                                            *)
rangesFlattened ==
    /\ isFlattenCall
    /\ IsOk(ret)
    /\ cls \in {"MeshVertex", "NurbsSurfaceCV", "MeshVertexFace"}
    /\ \A d \in 1..Len(call.index.entries) : call.index.entries[d].kind # "list"

----------------------------------------------------------------------------
(* Nested collections given to __getitem__, checked under Spec *)

(* the last __getitem__ was given a non-empty list of numbers within the   *)
(* range of the receiver's next dimension                                 *)
inRangeListCall ==
    /\ receiverIndexable
    /\ call.item.kind = "list"
    /\ call.item.items # << >>
    /\ LET allowedRange == _dimRange(cls, host, receiverPartial)
       IN  /\ IsOk(allowedRange)
           /\ \A k \in 1..Len(call.item.items) :
                 /\ call.item.items[k].kind = "num"
                 /\ inRange(call.item.items[k].v, allowedRange.value)

(* C20: on a discrete domain __getitem__ with a non-empty list of in-range *)
(* numbers returns a new component with the list appended to the partial   *)
(* index; on a continuous domain __getitem__ with a list never returns.    *)
C20_NestedCollections ==
    /\ (inRangeListCall /\ cls \in DiscreteClasses) =>
          /\ IsOk(ret)
          /\ ret.value._partialIndex = Some(Append1(receiverPartial, call.item))
    /\ (receiverIndexable /\ call.item.kind = "list" /\ cls \in ContinuousClasses) =>
          ~IsOk(ret)

----------------------------------------------------------------------------
(* Properties of component objects, checked under CursorSpec and ObjectSpec *)

(* what the receiver of the last call answers to currentDimension(), asked *)
(* before and after the call                                               *)
dimensionBefore == DimensionedComponent_currentDimension(cls, call.self).ret
dimensionAfter == DimensionedComponent_currentDimension(cls, call.after).ret

(* the cursor of a component *)
cursor(self) == <<self._currentFlatIndex, self._stopIteration>>

(* C13: a __getitem__ that returns gives a new component whose index is    *)
(* the receiver's partial index with the entry appended, and leaves the    *)
(* receiver's index, partial index, label and currentDimension() as they   *)
(* were; a __getitem__ that raises leaves the receiver's partial index,    *)
(* currentDimension(), cursor and handle as they were.                     *)
C13_ReceiverUnchanged ==
    isGetItem =>
        /\ call.after._partialIndex = call.self._partialIndex
        /\ call.after._indices = call.self._indices
        /\ dimensionAfter = dimensionBefore
        /\ cursor(call.after) = cursor(call.self)
        /\ call.after.MObjectHandle = call.self.MObjectHandle
        /\ IsOk(ret) =>
              /\ ret.value._indices = Some(Append1(receiverPartial, call.item))
              /\ cursor(ret.value) = <<0, FALSE>>
              /\ ret.value.MObjectHandle = None

(* a component whose cursor has moved and that has its handle is indexed   *)
C13_Witness ==
    /\ isGetItem
    /\ IsOk(ret)
    /\ call.self._currentFlatIndex = 1
    /\ call.self.MObjectHandle # None
    /\ call.item = Num(0)

(* the last call was the nth next() since the component was made or reset, *)
(* with no setIndex in between, and the component has a handle to count    *)
countedNextCall ==
    /\ call.op = "next"
    /\ call.nth # None
    /\ call.after.MObjectHandle # None

(* the component next() makes of element k of the handle, counted from 1 *)
elementAt(handle, k) ==
    DiscreteComponent__init__(
        DimensionedComponent__init__(cls, Some(curIndex(handle.elements[k]))), None)

(* C14: with N the elementCount of the component's handle, the nth next()  *)
(* after the component was made or reset returns the component of element  *)
(* n - 1 of the handle while n <= N, and raises StopIteration for every    *)
(* n > N (for N = 0 from the first call on).                               *)
C14_CursorSequence ==
    countedNextCall =>
        IF Val(call.nth) <= elementCount(Val(call.after.MObjectHandle))
        THEN ret = Ok(elementAt(Val(call.after.MObjectHandle), Val(call.nth)))
        ELSE ret = Raise("StopIteration", "")

(* the last of two elements is returned, and the cursor stops *)
C14_Witness ==
    /\ countedNextCall
    /\ Val(call.nth) = 2
    /\ elementCount(Val(call.after.MObjectHandle)) = 2
    /\ IsOk(ret)
    /\ call.self._currentFlatIndex = 1
    /\ call.after._stopIteration

(* the last call was count() on a class whose handle lists its elements *)
isCount == call.op = "count" /\ cls \in ElementClasses

(* the number of leaves a flattening of the index returns *)
numLeaves(index) == Len(_flattenIndex(cls, host, index, TRUE).value)

(* C15 as stated: count() of a component that cannot be indexed further is *)
(* the elementCount of its handle, and count() of a component that can is  *)
(* the number of leaves of its flattened partial index.                    *)
C15_Original ==
    isCount =>
        IF call.self._partialIndex = None
        THEN call.after.MObjectHandle # None =>
                ret = Ok(elementCount(Val(call.after.MObjectHandle)))
        ELSE IsOk(_flattenIndex(cls, host, receiverPartial, TRUE)) =>
                ret = Ok(numLeaves(receiverPartial))

(* C15 amended: count() of every component, whether it can be indexed      *)
(* further or not, is the elementCount of its handle, which is made and    *)
(* kept by the call if the component had none; the handle made for a       *)
(* component that can still be indexed lists the leaves of its flattened   *)
(* partial index, so that only then count() is their number; making the    *)
(* handle, and so count(), raises for an index that holds a list.          *)
C15_CountReadsHandle ==
    isCount =>
        /\ IsOk(ret) =>
              /\ call.after.MObjectHandle # None
              /\ ret.value = elementCount(Val(call.after.MObjectHandle))
        /\ (IsOk(ret) /\ call.self.MObjectHandle = None
                      /\ call.self._partialIndex # None) =>
              ret.value = numLeaves(receiverPartial)
        /\ (call.self.MObjectHandle = None /\ call.self._indices # None
               /\ hasIterable(Val(call.self._indices))) =>
              (~IsOk(ret) /\ ret.exc = "IndexError")

(* all the control vertices of a surface are counted from the handle the   *)
(* call makes for them                                                     *)
C15_Witness ==
    /\ isCount
    /\ cls = "NurbsSurfaceCV"
    /\ call.self._partialIndex # None
    /\ call.self.MObjectHandle = None
    /\ call.after.MObjectHandle # None
    /\ ret = Ok(2)

(* the last call was count() on the class that counts by address strings *)
isStringCount == call.op = "count" /\ cls = "SubdVertex"

(* C16: on a Component1D64 the first count() that returns asks the scene   *)
(* for the selection strings once and stores the count on the component; a *)
(* count() right after one that returned asks nothing and returns the      *)
(* stored count: two calls in a row make exactly one round trip.           *)
C16_StoredLength ==
    isStringCount =>
        /\ (call.self._storedLen = None /\ IsOk(ret)) =>
              /\ call.trips = 1
              /\ call.after._storedLen = Some(ret.value)
        /\ call.again =>
              /\ call.trips = 0
              /\ call.self._storedLen # None
              /\ ret = Ok(Val(call.self._storedLen))
              /\ call.after = call.self

(* the second count() of subd.smp[0:1]: two elements, no round trip *)
C16_Witness ==
    /\ isStringCount
    /\ call.again
    /\ call.trips = 0
    /\ ret = Ok(2)

(* the last call asked for the handle of a component that had none, on a   *)
(* class whose handle is resolved from address strings, in a scene that    *)
(* does not resolve them                                                   *)
unresolvedCall ==
    /\ call.op = "__apihandle__"
    /\ call.self.MObjectHandle = None
    /\ cls \notin ElementClasses
    /\ ~host.resolves

(* the index of the component can be put into address strings *)
addressable ==
    IsOk(_standardizeIndices(cls, host, call.self._indices, <<1, 2>>))

(* C17: when the scene does not resolve the address string built for the   *)
(* component, __apihandle__ raises MayaComponentError with that string,    *)
(* stores no handle, and leaves the component as it was.                   *)
C17_UnresolvedAddress ==
    unresolvedCall =>
        /\ ~IsOk(ret)
        /\ addressable => ret.exc = "MayaComponentError"
        /\ call.after.MObjectHandle = None
        /\ call.after = call.self
        /\ comp = call.self

(* surface.u[0:] is not resolved: the string holds the range up to the     *)
(* largest parameter of the surface                                        *)
C17_Witness ==
    /\ unresolvedCall
    /\ cls = "NurbsSurfaceIsoparm"
    /\ addressable
    /\ ret.exc = "MayaComponentError"
    /\ ret.msg.plugAttr = "u"
    /\ ret.msg.dims[1].format = "%s:%s"
    /\ ret.msg.dims[1].args = <<0, host.knotDomain[2]>>
    /\ ret.msg.dims[2].format = "*"

(* the component the session starts with was constructed on a handle *)
constructedOnHandle == call.op = "__init__" /\ comp.MObjectHandle # None

(* that component is indexed, as the first call on it *)
handleIndexed ==
    /\ isGetItem
    /\ call.first
    /\ call.self.MObjectHandle # None

NotIndexable ==
    Raise("IndexError",
          "Indexing only allowed on an incompletely specified component")

(* the handle denotes a single element or a single point *)
singleton(handle) ==
    IF cls \in ElementClasses
    THEN Len(handle.elements) = 1
    ELSE ~handle.complete

(* C18 as stated: a component constructed on a handle, unless the handle   *)
(* denotes a single element, answers None to currentDimension() and        *)
(* raises the IndexError of a component that cannot be indexed on          *)
(* __getitem__.                                                            *)
C18_Original ==
    /\ (constructedOnHandle /\ ~singleton(Val(comp.MObjectHandle))) =>
          currentDimension(cls, comp) = None
    /\ (handleIndexed /\ ~singleton(Val(call.self.MObjectHandle))) =>
          ret = NotIndexable

(* C18 amended: a component constructed on a handle can be indexed exactly *)
(* when the handle's component is complete (all vertices of the mesh): it  *)
(* then starts at dimension 0 with an empty partial index and __getitem__  *)
(* takes a valid entry; on a handle that is not complete, a single element *)
(* or more, currentDimension() is None and __getitem__ raises the          *)
(* IndexError of a component that cannot be indexed.                       *)
C18_HandleCompleteness ==
    /\ constructedOnHandle =>
          /\ comp._indices = None
          /\ IF Val(comp.MObjectHandle).complete
             THEN /\ currentDimension(cls, comp) = Some(0)
                  /\ Val(comp._partialIndex).entries = << >>
             ELSE /\ currentDimension(cls, comp) = None
                  /\ comp._partialIndex = None
    /\ handleIndexed =>
          IF Val(call.self.MObjectHandle).complete
          THEN /\ ret # NotIndexable
               /\ call.item = Num(0) =>
                     /\ IsOk(ret)
                     /\ Val(ret.value._indices).entries = <<Num(0)>>
          ELSE ret = NotIndexable

(* all the vertices of a mesh, given as a complete handle, are indexed *)
C18_Witness ==
    /\ handleIndexed
    /\ cls = "MeshVertex"
    /\ Val(call.self.MObjectHandle).complete
    /\ Len(Val(call.self.MObjectHandle).elements) = MaxElements
    /\ call.item = Num(0)
    /\ IsOk(ret)

(* a range with exactly one end given and no step *)
oneOpenEnd(e) ==
    /\ e.kind = "slice"
    /\ e.step = None
    /\ (e.start = None) # (e.stop = None)

givenEnd(e) == IF e.start = None THEN Val(e.stop) ELSE Val(e.start)

(* the least index of the dimension: 0 where the indices are counted *)
dimMin(range) == IF cls \in DiscreteClasses THEN 0 ELSE range[1]

givenInBounds(e, range) ==
    /\ IsOk(range)
    /\ dimMin(range.value) <= givenEnd(e)
    /\ givenEnd(e) <= range.value[2]

(* entry d of the index is a range with one open end whose given end lies  *)
(* in the bounds of the dimension after the entries before it              *)
openAt(index, d) ==
    /\ oneOpenEnd(index.entries[d])
    /\ givenInBounds(index.entries[d],
                     _dimRange(cls, host,
                               ComponentIndex(SubSeq(index.entries, 1, d - 1),
                                              index.label)))

(* __getitem__ is given such a range on a component that can be indexed *)
openRangeCall ==
    /\ isGetItem
    /\ call.self._partialIndex # None
    /\ openAt(Append1(Val(call.self._partialIndex), call.item),
              Len(Val(call.self._partialIndex).entries) + 1)

(* a number, or a range without step that leaves an end open *)
plainEntry(e) ==
    \/ e.kind = "num"
    \/ /\ e.kind = "slice"
       /\ e.step = None
       /\ (e.start = None \/ e.stop = None)

(* the handle of a component is made from an index of such entries, in a   *)
(* scene that resolves the names it is given                               *)
openResolveCall ==
    /\ call.op = "__apihandle__"
    /\ call.self.MObjectHandle = None
    /\ call.self._indices # None
    /\ \A d \in 1..Len(Val(call.self._indices).entries) :
          plainEntry(Val(call.self._indices).entries[d])
    /\ host.resolves

(* the second index of a vertex-face: the faces around one vertex *)
faceDimension(d) == cls = "MeshVertexFace" /\ d = 2

(* the ends the handle is to cover in dimension d *)
endsOf(e, range) ==
    << IF e.start # None THEN Val(e.start) ELSE dimMin(range),
       IF e.stop # None THEN Val(e.stop) ELSE range[2] >>

coversEnds(handle, d, ends) ==
    IF cls \in ElementClasses
    THEN { handle.elements[i][d] : i \in 1..Len(handle.elements) } = ends[1]..ends[2]
    ELSE \A i \in 1..Len(handle.names) :
            handle.names[i].dims[d] = [format |-> "%s:%s", args |-> ends]

resolvedAt(index, d) ==
    /\ IsOk(ret)
    /\ coversEnds(ret.value, d,
                  endsOf(index.entries[d],
                         _dimRange(cls, host,
                                   ComponentIndex(SubSeq(index.entries, 1, d - 1),
                                                  index.label)).value))

(* C19 as stated: on every domain __getitem__ accepts a range with one     *)
(* open end whose given end is in bounds, and the handle of the component  *)
(* covers the dimension from its least index (0 where indices are counted) *)
(* or to its greatest.                                                     *)
C19_Original ==
    /\ openRangeCall => IsOk(ret)
    /\ openResolveCall =>
          \A d \in 1..Len(Val(call.self._indices).entries) :
             openAt(Val(call.self._indices), d) =>
                resolvedAt(Val(call.self._indices), d)

(* C19 amended: the statement holds in every dimension but the second of a *)
(* vertex-face, where __getitem__ refuses every range with an IndexError,  *)
(* so that no component with such a range there is ever resolved.          *)
C19_OpenRange ==
    /\ openRangeCall =>
          IF faceDimension(Len(Val(call.self._partialIndex).entries) + 1)
          THEN ret = Raise("IndexError",
                           "only completely open-ended slices are allowable")
          ELSE IsOk(ret)
    /\ openResolveCall =>
          \A d \in 1..Len(Val(call.self._indices).entries) :
             openAt(Val(call.self._indices), d) =>
                /\ ~faceDimension(d)
                /\ resolvedAt(Val(call.self._indices), d)

(* surface.u[:0] is resolved from the least knot of u *)
C19_Witness ==
    /\ openResolveCall
    /\ cls = "NurbsSurfaceIsoparm"
    /\ Val(call.self._indices).entries = <<HashableSlice(None, Some(0), None)>>
    /\ IsOk(ret)
    /\ host.knotDomain[1] = -1
    /\ ret.value.names[1].dims[1].args = <<-1, 0>>

----------------------------------------------------------------------------
(* Properties of option variables, checked under ShelveSpec *)

isSetItem == call.op = "__setitem__"

(* the value is a string, a number, or a list of values of one such type *)
melSupported(val) ==
    \/ val.kind \in {"str", "int", "bool", "float"}
    \/ /\ val.kind \in {"list", "tuple"}
       /\ \A i \in 1..Len(val.items) :
             /\ IsOk(listFlag(val.items[i].kind))
             /\ isinstance(val.items[i], val.items[1].kind)

inBothStores(key) == exists(host, key) /\ comp._shelve[key] # None

(* C21: after optionVar[key] = val the object has the key and returns val  *)
(* for it, the key being held by the optionVar command if val is a string, *)
(* a number or a list of one such type and by the shelve otherwise; no key *)
(* is ever held by both.                                                   *)
C21_ShelvePlacement ==
    /\ \A key \in Keys : ~inBothStores(key)
    /\ isSetItem =>
          /\ IsOk(ret)
          /\ OptionVarShelve_has_key(host, comp, call.key, "") = Ok(TRUE)
          /\ IsOk(OptionVarShelve__getitem__(host, comp, call.key))
          /\ __eq__(OptionVarShelve__getitem__(host, comp, call.key).value,
                    call.val)
          /\ exists(host, call.key) = melSupported(call.val)
          /\ (comp._shelve[call.key] # None) = ~melSupported(call.val)

(* next() is called right after a setIndex that returned *)
nextAfterSetIndex == call.op = "next" /\ call.moved # None

(* C22: after a setIndex(i) that returns, getIndex() is i and the next()   *)
(* that follows returns the component of element i of the handle, whether  *)
(* or not the end of the iteration had been reached before.                *)
C22_SetIndexRepositions ==
    /\ (call.op = "setIndex" /\ IsOk(ret)) =>
          comp._currentFlatIndex = call.index
    /\ nextAfterSetIndex =>
          ret = Ok(elementAt(Val(call.after.MObjectHandle), Val(call.moved) + 1))

isIteration == call.op = "_compIndexObjIter"

(* C23: a component that can still be indexed is iterated by flattening    *)
(* its partial index: its handle is neither made nor read, and the indices *)
(* are those of the flattening; the handle is enumerated exactly when      *)
(* currentDimension() is None.                                             *)
C23_IterationStrategy ==
    isIteration =>
        IF currentDimension(cls, call.self) # None
        THEN /\ call.iter = "_dimensionIter"
             /\ call.reads = 0
             /\ call.after.MObjectHandle = call.self.MObjectHandle
             /\ call.after.MFnComponent = call.self.MFnComponent
             /\ ret = _flattenIndex(cls, host, Val(call.self._partialIndex), TRUE)
        ELSE /\ call.iter = "_flatIter"
             /\ IsOk(ret) =>
                   /\ call.after.MObjectHandle # None
                   /\ call.reads = 1 + elementCount(Val(call.after.MObjectHandle))
                   /\ Len(ret.value) = elementCount(Val(call.after.MObjectHandle))

(* the rows of a surface's CVs are iterated with no handle made *)
C23_Witness ==
    /\ isIteration
    /\ cls = "NurbsSurfaceCV"
    /\ currentDimension(cls, call.self) = Some(1)
    /\ call.self.MObjectHandle = None
    /\ comp.MObjectHandle = None
    /\ IsOk(ret)
    /\ Len(ret.value) = MaxElements

----------------------------------------------------------------------------
(* Properties of SubdUV, checked under UVSpec *)

(* the call needed the length of the dimension *)
lengthQuery ==
    \/ call.op \in {"_dimLength", "_completeNameString"}
    \/ /\ call.op = "__getitem__"
       /\ call.item.kind = "slice" =>
             /\ ~(call.item.step # None /\ Val(call.item.step) < 0)
             /\ ~(call.item.start = None /\ call.item.stop = None)

----------------------------------------------------------------------------
(* Properties of label conversion, checked under ConvertSpec *)

isConversion == call.op = "_convertUVtoU"

(* the index handed to the conversion as the caller built it, and what the *)
(* conversion returned                                                     *)
givenIndex == deref(call.before, call.index)
returnedIndex == deref(comp, ret.value)

(* the indices and numbers a value holds, in order; those of a dict are    *)
(* read label by label, 'u' before 'uv' before 'v'                         *)
RECURSIVE leaves(_)
RECURSIVE leavesOfItems(_)
leavesOfItems(items) ==
    IF items = << >> THEN << >>
    ELSE leaves(Head(items)) \o leavesOfItems(Tail(items))

leavesUnder(v, k) == IF k \in DOMAIN v.byLabel THEN leaves(v.byLabel[k]) ELSE << >>

leaves(v) ==
    CASE v.type = "int" -> << <<"int", <<v.value.int>> >> >>
      [] v.type = "str" -> << >>
      [] v.type = "ComponentIndex" -> << <<"index", v.entries>> >>
      [] v.type = "dict" ->
           leavesUnder(v, "u") \o leavesUnder(v, "uv") \o leavesUnder(v, "v")
      [] OTHER -> leavesOfItems(v.items)

(* the value holds the label 'uv' somewhere: as a string, as the label of  *)
(* an index or as a key                                                    *)
RECURSIVE carriesUV(_)
carriesUV(v) ==
    CASE v.type = "int" -> FALSE
      [] v.type = "str" -> v.value.str = "uv"
      [] v.type = "ComponentIndex" -> v.label = Some("uv")
      [] v.type = "dict" ->
           \/ "uv" \in DOMAIN v.byLabel
           \/ \E k \in DOMAIN v.byLabel : carriesUV(v.byLabel[k])
      [] OTHER -> \E i \in 1..Len(v.items) : carriesUV(v.items[i])

relabelled(index) == [index EXCEPT !.label = IF @ = Some("uv") THEN Some("u") ELSE @]

labelsAfter(before) ==
    IF "uv" \in DOMAIN before.byLabel
    THEN (DOMAIN before.byLabel \ {"uv"}) \cup {"u"}
    ELSE DOMAIN before.byLabel

dictCanonical(before, after) ==
    /\ after.type = "dict"
    /\ DOMAIN after.byLabel = labelsAfter(before)
    /\ "v" \in DOMAIN before.byLabel => after.byLabel["v"] = before.byLabel["v"]
    /\ {"u", "uv"} \subseteq DOMAIN before.byLabel =>
          /\ after.byLabel["u"].type = "list"
          /\ leaves(after.byLabel["u"]) =
                leaves(before.byLabel["u"]) \o leaves(before.byLabel["uv"])

(* C25: what _convertUVtoU returns carries the label 'uv' nowhere, holds   *)
(* the entries of every index it was given unchanged and in order, keeps   *)
(* what was under 'v', holds under 'u' what was under 'u' followed by what *)
(* was under 'uv', and converting the result again gives the same result   *)
C25_Canonical ==
    isConversion =>
        /\ ~carriesUV(returnedIndex)
        /\ leaves(returnedIndex) = leaves(givenIndex)
        /\ givenIndex.type = "dict" => dictCanonical(givenIndex, returnedIndex)
        /\ givenIndex.type = "ComponentIndex" =>
              returnedIndex = relabelled(givenIndex)
        /\ call.again => returnedIndex = givenIndex

C25_Witness ==
    /\ isConversion
    /\ ~call.again
    /\ givenIndex.type = "dict"
    /\ DOMAIN givenIndex.byLabel = {"u", "uv", "v"}
    /\ givenIndex.byLabel["uv"].type = "list"
    /\ givenIndex.byLabel["u"].type = "ComponentIndex"
    /\ Len(leaves(returnedIndex.byLabel["u"])) = 3

(* C26: the objects that were there when _convertUVtoU was called are      *)
(* afterwards as they were: no ComponentIndex has another label or other   *)
(* entries and the dict of the caller holds what it held                   *)
C26_Immutable ==
    isConversion =>
        \A id \in 1..Len(call.before) : comp[id] = call.before[id]


----------------------------------------------------------------------------
(* Validation against expansion, checked under Spec *)

(* C27: the index of a component that __getitem__ returned is flattened    *)
(* without an error                                                        *)
C27_ValidatedExpands ==
    (call.op = "__getitem__" /\ IsOk(ret)) =>
        IsOk(_flattenIndex(cls, host, Val(comp._indices), TRUE))


----------------------------------------------------------------------------
(* The bounds of the cursor, checked under CursorSpec *)

(* count() of a component, as a call on it would answer *)
lengthOf(self) == count(cls, host, self, CHOOSE order \in OrdersFor(self) : TRUE).ret

hasElements(self) == IsOk(lengthOf(self)) /\ lengthOf(self).value > 0

outOfBounds(index, self) == index < 0 \/ index >= lengthOf(self).value

refusedSetIndex ==
    /\ call.op = "setIndex"
    /\ hasElements(call.self)
    /\ outOfBounds(call.index, call.self)

(* C28: the cursor of a component with N > 0 elements is at one of 0..N-1  *)
(* whatever was called, and a setIndex(i) with i < 0 or i >= N raises      *)
(* IndexError and leaves the cursor and the end-of-sequence flag alone     *)
C28_CursorInBounds ==
    /\ hasElements(comp) =>
          /\ 0 <= comp._currentFlatIndex
          /\ comp._currentFlatIndex <= lengthOf(comp).value - 1
    /\ refusedSetIndex =>
          /\ ~IsOk(ret) /\ ret.exc = "IndexError"
          /\ call.after._currentFlatIndex = call.self._currentFlatIndex
          /\ call.after._stopIteration = call.self._stopIteration

C28_Witness ==
    /\ refusedSetIndex
    /\ call.index = lengthOf(call.self).value
    /\ comp._currentFlatIndex = lengthOf(comp).value - 1
    /\ comp._currentFlatIndex > 0
    /\ comp._stopIteration


----------------------------------------------------------------------------
(* The leaves of a flattened index, checked under FlattenSpec *)

(* an index of numbers and ranges was flattened on a discrete domain *)
discreteFlattened ==
    /\ isFlattenCall
    /\ IsOk(ret)
    /\ cls \in DiscreteClasses
    /\ \A d \in 1..Len(call.index.entries) : call.index.entries[d].kind # "list"

prefixOf(index, d) == ComponentIndex(SubSeq(index.entries, 1, d - 1), index.label)

(* every entry of the index given would have passed __getitem__ on the     *)
(* component indexed by the entries before it                              *)
validatedByGetItem ==
    \A d \in 1..Len(call.index.entries) :
        IsOk(_validateGetItemIndice(cls, host, prefixOf(call.index, d),
                                    call.index.entries[d]))

allNumbers(leaf) ==
    /\ Len(leaf.entries) = dimensions(cls)
    /\ \A d \in 1..Len(leaf.entries) : leaf.entries[d].kind = "num"

(* the entry at d is one of 0..length-1 of the dimension after the entries *)
(* before it                                                               *)
withinLength(leaf, d) ==
    /\ IsOk(_dimLength(cls, host, prefixOf(leaf, d)))
    /\ 0 <= leaf.entries[d].v
    /\ leaf.entries[d].v <= _dimLength(cls, host, prefixOf(leaf, d)).value - 1

(* the second entry of a vertex-face is the id of a face at the vertex *)
faceAtVertex(leaf) ==
    /\ IsOk(getConnectedFaces(host, leaf.entries[1]))
    /\ \E k \in 1..Len(getConnectedFaces(host, leaf.entries[1]).value) :
          getConnectedFaces(host, leaf.entries[1]).value[k] = leaf.entries[2].v

(* the entries given with the wildcards they are padded with: elsewhere a  *)
(* range stays the range it was                                            *)
keptAsGiven(leaf) ==
    /\ Len(leaf.entries) = dimensions(cls)
    /\ \A d \in 1..Len(leaf.entries) :
          (d <= Len(call.index.entries) /\ call.index.entries[d].kind = "slice")
             => leaf.entries[d] = call.index.entries[d]

(* C29 as stated: every leaf of an index of numbers and ranges flattened   *)
(* on a discrete domain has as many entries as the domain has dimensions,  *)
(* all of them numbers, each within 0..length-1 of its dimension           *)
C29_Original ==
    discreteFlattened =>
        \A k \in 1..Len(ret.value) :
            /\ allNumbers(ret.value[k])
            /\ \A d \in 1..Len(ret.value[k].entries) : withinLength(ret.value[k], d)

(* C29 amended: on the domains that expand their ranges every leaf has as  *)
(* many entries as the domain has dimensions, all of them numbers; if the  *)
(* entries given pass __getitem__, each entry of a leaf of a mesh's        *)
(* vertices or a surface's control vertices is within 0..length-1 of its   *)
(* dimension, and a leaf of a mesh's vertex-faces is a vertex within       *)
(* 0..length-1 and the id of a face at it; on a Component1D64 a leaf has   *)
(* one entry and a range given stays as it is                              *)
C29_LeafShape ==
    discreteFlattened =>
        \A k \in 1..Len(ret.value) :
            /\ cls \in ElementClasses => allNumbers(ret.value[k])
            /\ (cls \in {"MeshVertex", "NurbsSurfaceCV"} /\ validatedByGetItem) =>
                  \A d \in 1..Len(ret.value[k].entries) : withinLength(ret.value[k], d)
            /\ (cls = "MeshVertexFace" /\ validatedByGetItem) =>
                  /\ withinLength(ret.value[k], 1)
                  /\ faceAtVertex(ret.value[k])
            /\ cls = "SubdVertex" => keptAsGiven(ret.value[k])

C29_Witness ==
    /\ discreteFlattened
    /\ cls = "NurbsSurfaceCV"
    /\ validatedByGetItem
    /\ Len(call.index.entries) = 1
    /\ call.index.entries[1].kind = "slice"
    /\ call.index.entries[1].stop = Some(1)
    /\ Len(ret.value) >= 4


----------------------------------------------------------------------------
(* Properties of plugin registration, checked under PluginSpec *)

deferredLoad ==
    /\ call.op = "_pluginLoaded"
    /\ call.reading
    /\ call.plugin # ""
    /\ mayaTypesOf(call.plugin) # << >>

callbackFired == call.op = "addPluginPyNodes"

(* C30: a plugin loaded while a file is read gets a SceneOpened callback   *)
(* and no node classes yet; the callback, whenever it is called, returns   *)
(* without raising, is registered no longer, has been called once at most  *)
(* and has added node classes only for a plugin recorded in _pluginData    *)
C30_DeferredRegistration ==
    /\ deferredLoad =>
          /\ call.added = {}
          /\ comp._pluginData[call.plugin].callbackId # None
          /\ host.callbacks[Val(comp._pluginData[call.plugin].callbackId)].registered
    /\ callbackFired =>
          /\ IsOk(ret)
          /\ ~host.callbacks[call.id].registered
          /\ host.callbacks[call.id].fired <= 1
          /\ call.added # {} => call.plugin \in DOMAIN comp._pluginData

====
